---- MODULE Spec2Model ----
(***************************************************************************)
(* Voice capture and transcription pipeline of the VaaniMed application:   *)
(* the VoiceAPIService singleton (lib/voiceAPI.ts, both the provider       *)
(* variant and the relay variant) modelled as state machines.              *)
(*                                                                         *)
(* JavaScript is single-threaded and cooperative: every action below is    *)
(* the code that runs between two suspension points (an await, an event    *)
(* handler, a timer).                                                      *)
(***************************************************************************)
EXTENDS Integers, Sequences, FiniteSets, TLC

VARIABLES
    \* ---- TranscriptionClient (VoiceAPIService.transcribe) ----
    apiKey,         \* VOICE_API_CONFIG.<provider>.apiKey is set
    tPc,            \* position of the transcribe call
    tPreferred,     \* its preferredService argument
    tBlob,          \* its audioBlob argument
    tCur,           \* provider whose adapter call is in flight
    tStage,         \* that adapter: awaiting its fetch, or returned
    adapterCalls,   \* adapters invoked by this call, in order
    netRequests,    \* fetches issued by this call, in order
    responses,      \* what each provider answered
    adapterResult,  \* what each adapter returned
    tRet,           \* the value transcribe returned
    \* ---- the browser ----
    supportedTypes,      \* mime types MediaRecorder.isTypeSupported accepts
    stopInactiveThrows,  \* MediaRecorder.stop() on an inactive recorder throws
    streams,             \* every MediaStream getUserMedia handed out, with
                         \* the MediaRecorder built on it
    \* ---- AudioCapture (VoiceAPIService recording) ----
    variant,        \* which voiceAPI module is bundled
    isRecording,    \* this.isRecording
    mediaRecorder,  \* this.mediaRecorder (0 is null, else its stream's index)
    audioChunks,    \* this.audioChunks (each chunk named by its recorder)
    startCalls,     \* every startRecording() call made so far
    stopCalls,      \* every stopRecording() call made so far
    permCalls,      \* every requestMicrophonePermission() call made so far
    \* ---- the React components that drive the service ----
    mounted,              \* which of VoiceIntakeForm and the chat are mounted
    chatKind,             \* the chat is TriageChatbot or MiniTriageChat
    voiceState,           \* VoiceIntakeForm: voiceState
    currentField,         \* VoiceIntakeForm: currentField ("none" is null)
    formData,             \* VoiceIntakeForm: formData, the dictated fields
    recordingTimeoutRef,  \* VoiceIntakeForm: recordingTimeoutRef.current
    timers,               \* setTimeout callbacks not yet run
    chat,                 \* the chat: isListening, hasVoicePermission,
                          \* speechError, inputText
    pending,              \* handler invocations suspended at an await
    transcriptions,       \* every voiceAPI.transcribe() call of a component
    sessions,             \* who made each startRecording() call, and for
                          \* which field
    intakeRows,           \* rows handleSubmit inserted into
                          \* patient_intake_forms
    \* ---- the minimal VoiceIntakeForm and the relay server ----
    minimal,              \* minimal VoiceIntakeForm: transcript, isRecording,
                          \* error ("" is null)
    unhandled,            \* promise rejections no handler caught
    relayRequests,        \* every POST /chat the relay received, with what
                          \* it forwarded and what it answered
    \* ---- useAuth, the database and the pages that write to it ----
    auth,                 \* useAuth: user, profile, loading, authError, and
                          \* its effect's mounted flag
    authCalls,            \* initializeAuth and auth-state-change handler
                          \* invocations, each with where it stands
    backend,              \* Supabase: the stored session, the profiles and
                          \* the doctors table
    dashboard,            \* DoctorsDashboard: doctorId, its fetchDoctorId
                          \* runs, and signUp's createDoctorProfile
    submit                \* VoiceIntakeForm: isSubmitting, submitMessage and
                          \* the database writes handleSubmit issued

tvars == <<apiKey, tPc, tPreferred, tBlob, tCur, tStage, adapterCalls,
           netRequests, responses, adapterResult, tRet>>

rvars == <<supportedTypes, stopInactiveThrows, streams, variant, isRecording,
           mediaRecorder, audioChunks, startCalls, stopCalls, permCalls>>

cvars == <<mounted, chatKind, voiceState, currentField, formData,
           recordingTimeoutRef, timers, chat, pending, transcriptions, sessions,
           intakeRows>>

mvars == <<minimal, unhandled, relayRequests>>

avars == <<auth, authCalls, backend, dashboard>>

svars == <<submit>>

vars == <<tvars, rvars, cvars, mvars, avars, svars>>

-----------------------------------------------------------------------------
\* Values

Providers == {"openai", "gemini"}

Other(p) == IF p = "openai" THEN "gemini" ELSE "openai"

\* A promise not yet settled / a value not yet produced.
NoResult == [none |-> TRUE]

NoResponse == [kind |-> "none"]

\* Audio blobs: one that String.fromCharCode(...bytes) can spread and one
\* that is too long for an argument list.
Blobs == {"short", "long"}

Texts == {"", "fever for two days"}

\* Confidence in percent (0.87 is 87).
Confidences == {0, 87}

EmptyBody == [f \in {} |-> 0]

\* fetch rejected, or the body could not be parsed.
ThrownMessages == {"", "Failed to fetch"}

FailureResponses ==
    [kind : {"networkError"}, message : ThrownMessages]
        \cup [kind : {"http"}, status : {401, 500},
              errorMessage : {"", "quota exceeded"},
              statusText : {"Server Error"}]
        \cup [kind : {"badJson"}, message : {"Unexpected token"}]

OpenAIBodies == {EmptyBody} \cup [text : Texts]

GeminiAlternatives ==
    {EmptyBody} \cup [transcript : Texts] \cup [transcript : Texts, confidence : Confidences]

GeminiBodies ==
    {EmptyBody, [results |-> <<>>], [results |-> <<EmptyBody>>],
     [results |-> <<[alternatives |-> <<>>]>>]}
        \cup {[results |-> <<[alternatives |-> <<a>>]>>] : a \in GeminiAlternatives}

ResponsesOf(p) ==
    FailureResponses
        \cup [kind : {"ok"}, body : IF p = "openai" THEN OpenAIBodies ELSE GeminiBodies]

-----------------------------------------------------------------------------
\* JavaScript helpers

\* result.error is a non-empty string
HasError(r) == "error" \in DOMAIN r /\ r.error # ""

\* a || b on strings
StrOr(a, b) == IF a # "" THEN a ELSE b

\* obj.field || dflt for a string field that may be absent
FieldOr(obj, field, dflt) ==
    IF field \in DOMAIN obj THEN StrOr(obj[field], dflt) ELSE dflt

\* the message of the Error built for a non-2xx answer
ApiErrorMessage(name, resp) ==
    name \o " API error: " \o ToString(resp.status) \o " - "
        \o StrOr(resp.errorMessage, resp.statusText)

\* error.message of whatever the try block threw
ThrownMessage(name, resp) ==
    IF resp.kind = "http" THEN ApiErrorMessage(name, resp) ELSE resp.message

-----------------------------------------------------------------------------
\* Provider adapters

KeyMissingResult(p) ==
    IF p = "openai"
    THEN [text |-> "",
          error |-> "OpenAI API key not configured. Please add VITE_OPENAI_API_KEY to your environment variables."]
    ELSE [text |-> "",
          error |-> "Gemini API key not configured. Please add VITE_GEMINI_API_KEY to your environment variables."]

\* Variant: the adapter goes to the network without looking at its key.
Configured_Unchecked(p) == TRUE

\* if (!apiKey) return {text: '', error: ...}
Configured(p) == apiKey[p]

\* transcribeWithOpenAI once fetch has settled
OpenAIOutcome(resp) ==
    IF resp.kind = "ok"
    THEN [text |-> FieldOr(resp.body, "text", ""), confidence |-> 100]
    ELSE [text |-> "",
          error |-> StrOr(ThrownMessage("OpenAI", resp),
                          "Failed to transcribe audio with OpenAI")]

\* btoa(String.fromCharCode(...new Uint8Array(arrayBuffer))) throws a
\* RangeError when the blob is longer than an argument list may be.
GeminiEncodeThrows(blob) == blob = "long"

GeminiEncodeFailure ==
    [text |-> "", error |-> "Maximum call stack size exceeded"]

\* data.results && data.results.length > 0 && result.alternatives && ...length > 0
GeminiHasAlternative(body) ==
    /\ "results" \in DOMAIN body
    /\ Len(body.results) > 0
    /\ "alternatives" \in DOMAIN body.results[1]
    /\ Len(body.results[1].alternatives) > 0

GeminiNoResults ==
    [text |-> "", error |-> "No transcription results from Gemini"]

\* confidence || 0.5
GeminiConfidence(alt) ==
    IF "confidence" \in DOMAIN alt /\ alt.confidence # 0 THEN alt.confidence ELSE 50

\* Variant: an answer without alternatives is returned as silence, not as
\* an error.
GeminiOutcome_EmptyIsSilence(resp) ==
    IF resp.kind = "ok"
    THEN IF GeminiHasAlternative(resp.body)
         THEN LET alt == resp.body.results[1].alternatives[1]
              IN  [text |-> FieldOr(alt, "transcript", ""),
                   confidence |-> GeminiConfidence(alt)]
         ELSE [text |-> "", confidence |-> 50]
    ELSE [text |-> "",
          error |-> StrOr(ThrownMessage("Gemini", resp),
                          "Failed to transcribe audio with Gemini")]

\* transcribeWithGemini once fetch has settled
GeminiOutcome(resp) ==
    IF resp.kind = "ok"
    THEN IF GeminiHasAlternative(resp.body)
         THEN LET alt == resp.body.results[1].alternatives[1]
              IN  [text |-> FieldOr(alt, "transcript", ""),
                   confidence |-> GeminiConfidence(alt)]
         ELSE GeminiNoResults
    ELSE [text |-> "",
          error |-> StrOr(ThrownMessage("Gemini", resp),
                          "Failed to transcribe audio with Gemini")]

AdapterOutcome(p, resp) ==
    IF p = "openai" THEN OpenAIOutcome(resp) ELSE GeminiOutcome(resp)

\* The adapter returns before any fetch: no key, or the encoding threw.
ReturnsBeforeFetch(p, blob) ==
    \/ ~Configured(p)
    \/ p = "gemini" /\ GeminiEncodeThrows(blob)

EarlyResult(p, blob) ==
    IF ~Configured(p) THEN KeyMissingResult(p) ELSE GeminiEncodeFailure

-----------------------------------------------------------------------------
\* VoiceAPIService.transcribe

\* Variants: the preferred result is returned whatever it is; the
\* alternate is tried whatever the preferred result is.
FallbackNeeded_Never(result) == FALSE

FallbackNeeded_Always(result) == TRUE

\* if (!result.error) return result;  -- otherwise fall back
FallbackNeeded(result) == HasError(result)

\* Variant: after the fallback the preferred provider's result is returned.
ReturnAfterFallback_First(first, second) == first

\* return await this.transcribeWith<Alternate>(audioBlob)
ReturnAfterFallback(first, second) == second

\* transcribe calls the adapter of p, which runs up to its first await.
Invoke(p, blob) ==
    /\ tCur' = p
    /\ adapterCalls' = Append(adapterCalls, p)
    /\ IF ReturnsBeforeFetch(p, blob)
       THEN /\ adapterResult' = [adapterResult EXCEPT ![p] = EarlyResult(p, blob)]
            /\ tStage' = "returned"
            /\ UNCHANGED netRequests
       ELSE /\ netRequests' = Append(netRequests, p)
            /\ tStage' = "fetching"
            /\ UNCHANGED adapterResult

Transcribe(blob, preferred) ==
    /\ tPc = "idle"
    /\ tPc' = "first"
    /\ tPreferred' = preferred
    /\ tBlob' = blob
    /\ Invoke(preferred, blob)
    /\ UNCHANGED <<apiKey, responses, tRet>>
    /\ UNCHANGED <<avars, svars, rvars, cvars, mvars>>

\* The provider answers (or the request fails) and the adapter returns.
ProviderResponds(resp) ==
    /\ tStage = "fetching"
    /\ resp \in ResponsesOf(tCur)
    /\ responses' = [responses EXCEPT ![tCur] = resp]
    /\ adapterResult' = [adapterResult EXCEPT ![tCur] = AdapterOutcome(tCur, resp)]
    /\ tStage' = "returned"
    /\ UNCHANGED <<apiKey, tPc, tPreferred, tBlob, tCur, adapterCalls, netRequests, tRet>>
    /\ UNCHANGED <<avars, svars, rvars, cvars, mvars>>

\* transcribe resumes after `await this.transcribeWith...` of the preferred service.
ResumeAfterPreferred ==
    /\ tPc = "first"
    /\ tStage = "returned"
    /\ IF FallbackNeeded(adapterResult[tPreferred])
       THEN /\ tPc' = "second"
            /\ Invoke(Other(tPreferred), tBlob)
            /\ UNCHANGED tRet
       ELSE /\ tPc' = "done"
            /\ tRet' = adapterResult[tPreferred]
            /\ tStage' = "none"
            /\ UNCHANGED <<tCur, adapterCalls, netRequests, adapterResult>>
    /\ UNCHANGED <<apiKey, tPreferred, tBlob, responses>>
    /\ UNCHANGED <<avars, svars, rvars, cvars, mvars>>

\* transcribe resumes after the await of the fallback service and returns.
ResumeAfterFallback ==
    /\ tPc = "second"
    /\ tStage = "returned"
    /\ tPc' = "done"
    /\ tStage' = "none"
    /\ tRet' = ReturnAfterFallback(adapterResult[tPreferred],
                                   adapterResult[Other(tPreferred)])
    /\ UNCHANGED <<apiKey, tPreferred, tBlob, tCur, adapterCalls, netRequests,
                   responses, adapterResult>>
    /\ UNCHANGED <<avars, svars, rvars, cvars, mvars>>

\* The caller has its result; the service is ready for the next call.
TranscribeDone ==
    /\ tPc = "done"
    /\ tPc' = "idle"
    /\ adapterCalls' = <<>>
    /\ netRequests' = <<>>
    /\ responses' = [p \in Providers |-> NoResponse]
    /\ adapterResult' = [p \in Providers |-> NoResult]
    /\ tRet' = NoResult
    /\ UNCHANGED <<apiKey, tPreferred, tBlob, tCur, tStage>>
    /\ UNCHANGED <<avars, svars, rvars, cvars, mvars>>

TInit ==
    /\ apiKey \in [Providers -> BOOLEAN]
    /\ tPc = "idle"
    /\ tPreferred = "openai"
    /\ tBlob = "short"
    /\ tCur = "openai"
    /\ tStage = "none"
    /\ adapterCalls = <<>>
    /\ netRequests = <<>>
    /\ responses = [p \in Providers |-> NoResponse]
    /\ adapterResult = [p \in Providers |-> NoResult]
    /\ tRet = NoResult

\* Two of the dictated fields of the intake form.
Fields == {"chiefComplaint", "allergies"}

\* useState initial values
InitialVoiceState == [isListening |-> FALSE, hasPermission |-> FALSE, error |-> ""]

InitialChat ==
    [isListening |-> FALSE, hasVoicePermission |-> FALSE, speechError |-> "",
     inputText |-> ""]

\* No component mounted.
CIdle ==
    /\ mounted = {}
    /\ chatKind = "mini"
    /\ voiceState = InitialVoiceState
    /\ currentField = "none"
    /\ formData = [f \in Fields |-> ""]
    /\ recordingTimeoutRef = 0
    /\ timers = {}
    /\ chat = InitialChat
    /\ pending = {}
    /\ transcriptions = <<>>
    /\ sessions = <<>>
    /\ intakeRows = <<>>

\* The minimal form as useState leaves it, no request at the relay.
InitialMinimal == [transcript |-> "", isRecording |-> FALSE, error |-> ""]

MIdle ==
    /\ minimal = InitialMinimal
    /\ unhandled = {}
    /\ relayRequests = <<>>

\* useState initial values of useAuth; its effect has not run ("none" is
\* null, "" is no error).
InitialAuth ==
    [user |-> "none", profile |-> "none", loading |-> TRUE, authError |-> "",
     mounted |-> FALSE]

\* Nobody signed in, no row in profiles or doctors, no auth-state-change
\* notification sent yet.
EmptyBackend ==
    [session |-> "none", profiles |-> {}, doctors |-> <<>>, events |-> 0,
     errorsAreErrors |-> FALSE]

\* DoctorsDashboard not rendered, nobody signing up.
InitialDashboard ==
    [mounted |-> FALSE, doctorId |-> 0, runs |-> {}, effects |-> 0,
     signUp |-> "idle"]

\* VoiceIntakeForm's submit state as useState leaves it, nothing written.
InitialSubmit ==
    [isSubmitting |-> FALSE, submitMessage |-> "", writes |-> <<>>,
     calls |-> 0]

AIdle ==
    /\ auth = InitialAuth
    /\ authCalls = {}
    /\ backend = EmptyBackend
    /\ dashboard = InitialDashboard
    /\ submit = InitialSubmit

\* useAuth has settled: u is signed in and has a profile, or nobody is
\* ("none").
AuthReady(u) ==
    /\ auth = [InitialAuth EXCEPT !.user = u, !.profile = u,
                                  !.loading = FALSE, !.mounted = TRUE]
    /\ authCalls = {}
    /\ backend = [EmptyBackend EXCEPT
                     !.session = u,
                     !.profiles = IF u = "none" THEN {} ELSE {u}]
    /\ dashboard = InitialDashboard
    /\ submit = InitialSubmit

\* The service as constructed, in a browser that records webm/opus.
RIdle ==
    /\ variant = "providers"
    /\ supportedTypes = {"audio/webm;codecs=opus", "audio/webm"}
    /\ stopInactiveThrows = FALSE
    /\ streams = <<>>
    /\ isRecording = FALSE
    /\ mediaRecorder = 0
    /\ audioChunks = <<>>
    /\ startCalls = <<>>
    /\ stopCalls = <<>>
    /\ permCalls = <<>>

NextTranscribe ==
    \/ \E blob \in Blobs, preferred \in Providers : Transcribe(blob, preferred)
    \/ \E resp \in ResponsesOf("openai") \cup ResponsesOf("gemini") : ProviderResponds(resp)
    \/ ResumeAfterPreferred
    \/ ResumeAfterFallback
    \/ TranscribeDone

InitTranscribe == TInit /\ RIdle /\ CIdle /\ MIdle /\ AIdle

SpecTranscribe == InitTranscribe /\ [][NextTranscribe]_vars

-----------------------------------------------------------------------------
\* AudioCapture: VoiceAPIService.startRecording / stopRecording

MaxStarts == 2

MaxStops == 2

MaxChunks == 1

MaxPermissionCalls == 2

Variants == {"providers", "relay"}

\* Browsers: one that records webm/opus, one that records only mp4, one
\* that accepts none of the types the code asks about.
Browsers == {{"audio/webm;codecs=opus", "audio/webm"}, {"audio/mp4"}, {}}

AlreadyRecordingMessage == "Already recording"

NotRecordingMessage == IF variant = "providers" THEN "Not currently recording" ELSE "Not recording"

\* getUserMedia rejections
MediaErrors == {"NotAllowedError", "NotFoundError"}

\* "Choose the best supported audio format"
ChooseMimeType(supported) ==
    IF "audio/webm;codecs=opus" \in supported THEN "audio/webm;codecs=opus"
    ELSE IF "audio/mp4" \in supported THEN "audio/mp4"
    ELSE IF "audio/wav" \in supported THEN "audio/wav"
    ELSE "audio/webm"

RequestedMimeType ==
    IF variant = "providers" THEN ChooseMimeType(supportedTypes) ELSE "audio/webm"

\* new MediaRecorder(stream, {mimeType}) throws NotSupportedError
ConstructorThrows(mime) == mime \notin supportedTypes

\* if (this.isRecording) throw new Error('Already recording')
\* (the relay variant has no such check)
AlreadyRecordingGuard == variant = "providers" /\ isRecording

\* if (!this.mediaRecorder || !this.isRecording) reject(...)
\* (the relay variant tests this.mediaRecorder alone)
NotRecordingGuard ==
    IF variant = "providers"
    THEN mediaRecorder = 0 \/ ~isRecording
    ELSE mediaRecorder = 0

\* A MediaStream as getUserMedia returns it: no track stopped, no recorder.
NewStream ==
    [stops |-> 0, recorder |-> "none", mimeType |-> "", onstop |-> 0,
     onerror |-> 0, stopQueued |-> FALSE]

StartsAwaiting == {c \in 1..Len(startCalls) : startCalls[c].status = "awaitingMedia"}

\* stream.getTracks().forEach(track => track.stop()) on stream m; a recorder
\* still recording from it stops by itself and queues its stop event.
ReleaseTracks(strs, m) ==
    [strs EXCEPT ![m] =
        [@ EXCEPT !.stops = @ + 1,
                  !.recorder = IF @ = "recording" THEN "inactive" ELSE @,
                  !.stopQueued = IF strs[m].recorder = "recording" THEN TRUE ELSE @]]

\* startRecording() up to `await navigator.mediaDevices.getUserMedia(...)`
StartRecordingCall ==
    /\ Len(startCalls) < MaxStarts
    /\ startCalls' = Append(startCalls,
          [status |-> IF AlreadyRecordingGuard THEN "rejected" ELSE "awaitingMedia",
           error |-> IF AlreadyRecordingGuard THEN AlreadyRecordingMessage ELSE "",
           stream |-> 0,
           openAtCall |-> isRecording \/ StartsAwaiting # {},
           exitRecording |-> isRecording])
    /\ UNCHANGED <<permCalls, supportedTypes, stopInactiveThrows, streams, variant, isRecording,
                   mediaRecorder, audioChunks, stopCalls>>

StartRecording == StartRecordingCall /\ UNCHANGED <<avars, svars, tvars, cvars, mvars>>

\* getUserMedia resolves and startRecording runs to its end.
MediaGranted(c) ==
    /\ c \in StartsAwaiting
    /\ LET s == Len(streams) + 1
           mime == RequestedMimeType
       IN  IF ConstructorThrows(mime)
           THEN /\ streams' = Append(streams, NewStream)
                /\ startCalls' = [startCalls EXCEPT ![c] =
                      [@ EXCEPT !.status = "rejected", !.error = "NotSupportedError",
                                !.stream = s, !.exitRecording = isRecording]]
                /\ audioChunks' = IF variant = "relay" THEN <<>> ELSE audioChunks
                /\ UNCHANGED <<isRecording, mediaRecorder>>
           ELSE /\ streams' = Append(streams,
                      [NewStream EXCEPT !.recorder = "recording", !.mimeType = mime])
                /\ mediaRecorder' = s
                /\ audioChunks' = <<>>
                /\ isRecording' = TRUE
                /\ startCalls' = [startCalls EXCEPT ![c] =
                      [@ EXCEPT !.status = "resolved", !.stream = s,
                                !.exitRecording = TRUE]]
    /\ UNCHANGED <<permCalls, supportedTypes, stopInactiveThrows, variant, stopCalls>>
    /\ UNCHANGED <<avars, svars, tvars, cvars, mvars>>

\* getUserMedia rejects: the catch block rethrows (the relay variant has
\* no try) and startRecording rejects.
MediaRefused(c, err) ==
    /\ c \in StartsAwaiting
    /\ startCalls' = [startCalls EXCEPT ![c] =
          [@ EXCEPT !.status = "rejected", !.error = err,
                    !.exitRecording = isRecording]]
    /\ UNCHANGED <<permCalls, supportedTypes, stopInactiveThrows, streams, variant, isRecording,
                   mediaRecorder, audioChunks, stopCalls>>
    /\ UNCHANGED <<avars, svars, tvars, cvars, mvars>>

\* ondataavailable of recorder r: this.audioChunks.push(event.data)
DataAvailable(r) ==
    /\ r \in 1..Len(streams)
    /\ streams[r].recorder = "recording"
    /\ Len(audioChunks) < MaxChunks
    /\ audioChunks' = Append(audioChunks, r)
    /\ UNCHANGED <<permCalls, supportedTypes, stopInactiveThrows, streams, variant, isRecording,
                   mediaRecorder, startCalls, stopCalls>>
    /\ UNCHANGED <<avars, svars, tvars, cvars, mvars>>

\* A stopRecording() call as it is when it returns its promise.
NewStopCall(status, error) ==
    [status |-> status, error |-> error, recorder |-> mediaRecorder,
     openAtCall |-> isRecording, pastGuard |-> ~NotRecordingGuard,
     exitStops |-> 0, exitRecording |-> isRecording, blob |-> NoResult]

\* stopRecording(): the promise executor.
StopRecordingCall ==
    /\ Len(stopCalls) < MaxStops
    /\ LET c == Len(stopCalls) + 1
           r == mediaRecorder
       IN  IF NotRecordingGuard
           THEN /\ stopCalls' = Append(stopCalls, NewStopCall("rejected", NotRecordingMessage))
                /\ UNCHANGED streams
           ELSE LET handlers == [streams[r] EXCEPT
                                   !.onstop = c,
                                   !.onerror = IF variant = "providers" THEN c ELSE @]
                IN  IF streams[r].recorder = "recording"
                    THEN /\ streams' = [streams EXCEPT ![r] =
                               [handlers EXCEPT !.recorder = "inactive", !.stopQueued = TRUE]]
                         /\ stopCalls' = Append(stopCalls, NewStopCall("pending", ""))
                    ELSE /\ streams' = [streams EXCEPT ![r] = handlers]
                         /\ stopCalls' = Append(stopCalls,
                               IF stopInactiveThrows
                               THEN [NewStopCall("rejected", "InvalidStateError") EXCEPT
                                        !.exitStops = streams[r].stops]
                               ELSE NewStopCall("pending", ""))
    /\ UNCHANGED <<permCalls, supportedTypes, stopInactiveThrows, variant, isRecording, mediaRecorder,
                   audioChunks, startCalls>>

StopRecording == StopRecordingCall /\ UNCHANGED <<avars, svars, tvars, cvars, mvars>>

\* The stop event of recorder r is dispatched; its onstop handler, if any,
\* works on this.mediaRecorder as it is now.
StopEvent(r) ==
    /\ r \in 1..Len(streams)
    /\ streams[r].stopQueued
    /\ LET h == streams[r].onstop
           fired == [streams EXCEPT ![r] = [@ EXCEPT !.stopQueued = FALSE]]
           released == ReleaseTracks(fired, mediaRecorder)
       IN  IF h = 0
           THEN /\ streams' = fired
                /\ UNCHANGED <<isRecording, stopCalls>>
           ELSE /\ isRecording' = FALSE
                /\ streams' = released
                /\ stopCalls' =
                      IF stopCalls[h].status = "pending"
                      THEN [stopCalls EXCEPT ![h] =
                              [@ EXCEPT !.status = "resolved",
                                        !.exitStops = released[stopCalls[h].recorder].stops,
                                        !.exitRecording = FALSE,
                                        !.blob = [chunks |-> audioChunks,
                                                  type |-> streams[mediaRecorder].mimeType]]]
                      ELSE stopCalls
    /\ UNCHANGED <<permCalls, supportedTypes, stopInactiveThrows, variant, mediaRecorder, audioChunks,
                   startCalls>>
    /\ UNCHANGED <<avars, svars, tvars, cvars, mvars>>

\* The recorder reports an error while its stop is pending: onerror rejects.
RecorderError(r) ==
    /\ r \in 1..Len(streams)
    /\ streams[r].stopQueued
    /\ streams[r].onerror # 0
    /\ stopCalls[streams[r].onerror].status = "pending"
    /\ LET h == streams[r].onerror
       IN  stopCalls' = [stopCalls EXCEPT ![h] =
              [@ EXCEPT !.status = "rejected", !.error = "Recording error",
                        !.exitStops = streams[stopCalls[h].recorder].stops,
                        !.exitRecording = isRecording]]
    /\ UNCHANGED <<permCalls, supportedTypes, stopInactiveThrows, streams, variant, isRecording,
                   mediaRecorder, audioChunks, startCalls>>
    /\ UNCHANGED <<avars, svars, tvars, cvars, mvars>>

\* requestMicrophonePermission() after its await: with a stream it stops
\* the stream's tracks and returns true, in its catch block it returns false.
PermissionOutcome_KeepsProbe(call, granted) ==
    [call EXCEPT !.status = "returned", !.result = granted]

PermissionOutcome(call, granted) ==
    [call EXCEPT !.status = "returned", !.result = granted,
                 !.probeStops = IF granted THEN @ + 1 ELSE @]

\* requestMicrophonePermission() up to `await getUserMedia(...)`
RequestMicrophonePermission ==
    /\ Len(permCalls) < MaxPermissionCalls
    /\ permCalls' = Append(permCalls,
          [status |-> "awaitingMedia", granted |-> FALSE, result |-> FALSE,
           probeStops |-> 0])
    /\ UNCHANGED <<supportedTypes, stopInactiveThrows, streams, variant, isRecording,
                   mediaRecorder, audioChunks, startCalls, stopCalls>>

\* getUserMedia resolves with a stream (granted) or rejects, and
\* requestMicrophonePermission runs to its end.
PermissionAnswered(c, granted) ==
    /\ c \in 1..Len(permCalls)
    /\ permCalls[c].status = "awaitingMedia"
    /\ permCalls' = [permCalls EXCEPT
          ![c] = PermissionOutcome([@ EXCEPT !.granted = granted], granted)]
    /\ UNCHANGED <<supportedTypes, stopInactiveThrows, streams, variant, isRecording,
                   mediaRecorder, audioChunks, startCalls, stopCalls>>
    /\ UNCHANGED <<avars, svars, tvars, cvars, mvars>>

TIdle ==
    /\ apiKey = [p \in Providers |-> TRUE]
    /\ tPc = "idle"
    /\ tPreferred = "openai"
    /\ tBlob = "short"
    /\ tCur = "openai"
    /\ tStage = "none"
    /\ adapterCalls = <<>>
    /\ netRequests = <<>>
    /\ responses = [p \in Providers |-> NoResponse]
    /\ adapterResult = [p \in Providers |-> NoResult]
    /\ tRet = NoResult

RInit ==
    /\ variant \in Variants
    /\ supportedTypes \in Browsers
    /\ stopInactiveThrows \in BOOLEAN
    /\ streams = <<>>
    /\ isRecording = FALSE
    /\ mediaRecorder = 0
    /\ audioChunks = <<>>
    /\ startCalls = <<>>
    /\ stopCalls = <<>>
    /\ permCalls = <<>>

InitRecorder == RInit /\ TIdle /\ CIdle /\ MIdle /\ AIdle

NextRecorder ==
    \/ StartRecording
    \/ \E c \in 1..MaxStarts : MediaGranted(c)
    \/ \E c \in 1..MaxStarts, err \in MediaErrors : MediaRefused(c, err)
    \/ \E r \in 1..MaxStarts : DataAvailable(r)
    \/ StopRecording
    \/ \E r \in 1..MaxStarts : StopEvent(r)
    \/ \E r \in 1..MaxStarts : RecorderError(r)

SpecRecorder == InitRecorder /\ [][NextRecorder]_vars

-----------------------------------------------------------------------------
\* Voice session controllers: VoiceIntakeForm, TriageChatbot and the
\* MiniTriageChat of FloatingChatWidget, all driving the one voiceAPI.
\*
\* A handler is a closure of the render that created it: it reads the state
\* as it was when the user event (or the setTimeout call) happened, kept
\* here as `snap`, while setState(prev => ...) works on the state as it is.

MaxPending == 2

MaxSubmits == 1

ChatKinds == {"triage", "mini"}

\* What the speaker said, as a provider returns it, and what the user typed.
SpokenText == " fever "

TypedText == "headache"

\* String.prototype.trim on the texts above
Trim(t) == IF t = SpokenText THEN "fever" ELSE t

\* s.trim() is not empty
NonBlank(t) == Trim(t) # ""

\* What voiceAPI.transcribe resolves to: both providers failed, a
\* transcript, or an empty transcript (confidence in percent).
TranscribeReturns ==
    {[text |-> "", error |-> "No transcription results from Gemini"],
     [text |-> SpokenText, confidence |-> 100],
     [text |-> "", confidence |-> 100]}

ProcessingMessage == "Processing audio..."

TranscribingMessage(owner) ==
    IF owner = "chat" /\ chatKind = "mini" THEN "Transcribing..." ELSE "Transcribing audio..."

\* `Transcribed successfully (NN% confidence)`, without its check mark
TranscribedMessage(result) ==
    "Transcribed successfully"
        \o (IF "confidence" \in DOMAIN result /\ result.confidence # 0
            THEN " (" \o ToString(result.confidence) \o "% confidence)"
            ELSE "")

NoSpeechMessage(owner) ==
    IF owner = "chat" /\ chatKind = "mini"
    THEN "No speech detected. Please try again."
    ELSE "No speech detected. Please try speaking more clearly."

MountDeniedMessage ==
    "Microphone access denied. Please allow microphone access to use voice input."

StartDeniedMessage ==
    "Microphone access denied. Please allow microphone access and try again."

TestingMessage == "Testing microphone..."

TestPassedMessage == "Microphone test successful! You can now use voice input."

TestFailedMessage ==
    "Microphone test failed. Please check your microphone and browser permissions."

\* The state groups a step leaves alone.
formState == <<voiceState, currentField, formData, recordingTimeoutRef>>

others == <<mounted, chatKind, intakeRows>>

\* The values a handler of VoiceIntakeForm closes over.
FormSnapshot ==
    [isListening |-> voiceState.isListening,
     hasPermission |-> voiceState.hasPermission,
     currentField |-> currentField]

\* A handler invocation: who runs it, the render it closes over, its
\* argument, the await it is suspended at and the call it awaits.
Invocation(owner, handler, snap, field) ==
    [owner |-> owner, handler |-> handler, snap |-> snap, field |-> field,
     pc |-> "running", call |-> 0]

Suspend(h, pc, call) == [h EXCEPT !.pc = pc, !.call = call]

\* if (recordingTimeoutRef.current) clearTimeout(recordingTimeoutRef.current)
ClearRecordingTimeout(ts) ==
    {t \in ts : ~(t.kind = "autoStop" /\ t.id = recordingTimeoutRef)}

\* Where invocation h goes on when its `await stopListening()` returns:
\* startListening for another field waits 500 ms, handleSubmit goes on to
\* build its records, everything else is done.
FormAfterStop(h) ==
    IF h.handler = "startListening" /\ h.snap.currentField # h.field
    THEN {Suspend(h, "wait500", 0)}
    ELSE IF h.handler = "handleSubmit"
    THEN {Suspend(h, "stopped", 0)}
    ELSE {}

\* startListening from `try { setCurrentField(field) ...` to
\* `await voiceAPI.startRecording()`; vs is voiceState as set so far.
FormRecord(h, rest, vs) ==
    /\ currentField' = h.field
    /\ voiceState' = [vs EXCEPT !.isListening = TRUE, !.error = ""]
    /\ StartRecordingCall
    /\ sessions' = Append(sessions, [owner |-> "form", field |-> h.field])
    /\ pending' = rest \cup {Suspend(h, "startRecording", Len(startCalls) + 1)}
    /\ UNCHANGED <<formData, recordingTimeoutRef, timers, transcriptions, chat, others>>

\* startListening from `if (!voiceState.hasPermission)` on.
FormBegin(h, rest) ==
    IF ~h.snap.hasPermission
    THEN /\ RequestMicrophonePermission
         /\ pending' = rest \cup {Suspend(h, "permission", Len(permCalls) + 1)}
         /\ UNCHANGED <<formState, timers, transcriptions, sessions, chat, others>>
    ELSE FormRecord(h, rest, voiceState)

\* stopListening of VoiceIntakeForm up to `await voiceAPI.stopRecording()`,
\* run by invocation h; ts is the timers left by the caller.
FormStop(h, rest, ts) ==
    /\ timers' = ts
    /\ IF ~h.snap.isListening \/ h.snap.currentField = "none"
       THEN /\ pending' = rest \cup FormAfterStop(h)
            /\ UNCHANGED <<rvars, formState>>
       ELSE /\ voiceState' = [voiceState EXCEPT !.error = ProcessingMessage]
            /\ StopRecordingCall
            /\ pending' = rest \cup {Suspend(h, "stopRecording", Len(stopCalls) + 1)}
            /\ UNCHANGED <<currentField, formData, recordingTimeoutRef>>
    /\ UNCHANGED <<transcriptions, sessions, chat, others>>

Room == Cardinality(pending) < MaxPending

\* VoiceIntakeForm mounts (the intake view, beside the floating widget):
\* its effect calls initializeVoiceAPI.
FormMount ==
    /\ mounted = {}
    /\ chatKind = "mini"
    /\ Room
    /\ mounted' = mounted \cup {"form"}
    /\ RequestMicrophonePermission
    /\ pending' = pending \cup
          {Suspend(Invocation("form", "initializeVoiceAPI", FormSnapshot, "none"),
                   "permission", Len(permCalls) + 1)}
    /\ UNCHANGED <<formState, timers, transcriptions, sessions, chat, chatKind, intakeRows>>
    /\ UNCHANGED <<avars, svars, tvars, mvars>>

\* The "Test Microphone" button, shown with the error while permission is
\* missing.
FormTestMicrophone ==
    /\ "form" \in mounted
    /\ ~voiceState.hasPermission
    /\ voiceState.error \notin {"", ProcessingMessage, TestPassedMessage}
    /\ Room
    /\ voiceState' = [voiceState EXCEPT !.error = TestingMessage]
    /\ RequestMicrophonePermission
    /\ pending' = pending \cup
          {Suspend(Invocation("form", "testMicrophone", FormSnapshot, "none"),
                   "permission", Len(permCalls) + 1)}
    /\ UNCHANGED <<currentField, formData, recordingTimeoutRef, timers, transcriptions,
                   sessions, chat, others>>
    /\ UNCHANGED <<avars, svars, tvars, mvars>>

\* requestMicrophonePermission() returned to a handler of the form.
FormPermissionSettled(h) ==
    /\ h \in pending
    /\ h.owner = "form"
    /\ h.pc = "permission"
    /\ permCalls[h.call].status = "returned"
    /\ LET ok == permCalls[h.call].result
           rest == pending \ {h}
       IN  CASE h.handler = "initializeVoiceAPI" ->
                  /\ voiceState' = [voiceState EXCEPT
                        !.hasPermission = ok,
                        !.error = IF ok THEN "" ELSE MountDeniedMessage]
                  /\ pending' = rest
                  /\ UNCHANGED <<rvars, currentField, formData, recordingTimeoutRef,
                                 timers, transcriptions, sessions, chat, others>>
             [] h.handler = "testMicrophone" ->
                  /\ voiceState' =
                        IF ok
                        THEN [voiceState EXCEPT !.error = TestPassedMessage,
                                                !.hasPermission = TRUE]
                        ELSE [voiceState EXCEPT !.error = TestFailedMessage]
                  /\ timers' = IF ok
                               THEN timers \cup {[kind |-> "clearTest", id |-> h.call]}
                               ELSE timers
                  /\ pending' = rest
                  /\ UNCHANGED <<rvars, currentField, formData, recordingTimeoutRef,
                                 transcriptions, sessions, chat, others>>
             [] OTHER ->
                  IF ok
                  THEN FormRecord(h, rest, [voiceState EXCEPT !.hasPermission = TRUE,
                                                                !.error = ""])
                  ELSE /\ voiceState' = [voiceState EXCEPT !.error = StartDeniedMessage]
                       /\ pending' = rest
                       /\ UNCHANGED <<rvars, currentField, formData, recordingTimeoutRef,
                                      timers, transcriptions, sessions, chat, others>>
    /\ UNCHANGED <<avars, svars, tvars, mvars>>

\* The microphone button of a field: startListening(field).
FormStartListening(field) ==
    /\ "form" \in mounted
    /\ voiceState.hasPermission
    /\ Room
    /\ LET h == Invocation("form", "startListening", FormSnapshot, field)
       IN  IF h.snap.isListening
           THEN FormStop(h, pending, timers)
           ELSE FormBegin(h, pending) 
    /\ UNCHANGED <<avars, svars, tvars, mvars>>

\* The Stop button, rendered under the field that is listening.
FormStopClick ==
    /\ "form" \in mounted
    /\ voiceState.isListening
    /\ currentField # "none"
    /\ Room
    /\ FormStop(Invocation("form", "stopListening", FormSnapshot, "none"), pending, timers)
    /\ UNCHANGED <<avars, svars, tvars, mvars>>

PleaseSignInMessage == "Please sign in to submit the form."

SubmittedMessage == "Intake form submitted successfully!"

\* `Error: ${error.message}`
SubmitErrorMessage == "Error: request failed"

\* One database write of handleSubmit being issued, answered without error
\* or answered with one.
Write(op, ev) == [op |-> op, ev |-> ev]

\* handleSubmit is called without a signed-in user.
SubmitRefused(s) ==
    [s EXCEPT !.calls = @ + 1, !.submitMessage = PleaseSignInMessage]

\* setIsSubmitting(true); setSubmitMessage(''); and the profile update is
\* issued.
SubmitBegins(s) ==
    [s EXCEPT !.isSubmitting = TRUE, !.submitMessage = "",
              !.writes = Append(@, Write("update", "issued"))]

\* The same, were isSubmitting left as it is.
SubmitFailed_StaysSubmitting(s, op) ==
    [s EXCEPT !.submitMessage = SubmitErrorMessage,
              !.writes = Append(@, Write(op, "failed"))]

\* The write answered with an error: handleSubmit's catch and finally
\* blocks.
SubmitFailed(s, op) ==
    [s EXCEPT !.submitMessage = SubmitErrorMessage, !.isSubmitting = FALSE,
              !.writes = Append(@, Write(op, "failed"))]

\* handleSubmit, which closes over user and formData, called while a field
\* is listening: up to the return of `await stopListening()`.
FormSubmit ==
    /\ "form" \in mounted
    /\ auth.user # "none"
    /\ voiceState.isListening
    /\ Room
    /\ submit.calls < MaxSubmits
    /\ \A h \in pending : h.handler # "handleSubmit"
    /\ FormStop(Invocation("form", "handleSubmit",
                           FormSnapshot @@ [formData |-> formData], "none"),
                pending, timers)
    /\ submit' = [submit EXCEPT !.calls = @ + 1]
    /\ UNCHANGED <<avars, tvars, mvars>>

\* handleSubmit called without a user, or while nothing is listening: it
\* returns at once, or goes on to the profile update.
FormSubmitIdle ==
    /\ "form" \in mounted
    /\ auth.user = "none" \/ ~voiceState.isListening
    /\ Room
    /\ submit.calls < MaxSubmits
    /\ \A h \in pending : h.handler # "handleSubmit"
    /\ IF auth.user = "none"
       THEN /\ submit' = SubmitRefused(submit)
            /\ UNCHANGED pending
       ELSE /\ submit' = SubmitBegins([submit EXCEPT !.calls = @ + 1])
            /\ pending' = pending \cup
                 {Suspend(Invocation("form", "handleSubmit",
                                     FormSnapshot @@ [formData |-> formData],
                                     "none"),
                          "update", 0)}
    /\ UNCHANGED <<formState, timers, transcriptions, sessions, chat, others>>
    /\ UNCHANGED <<avars, tvars, rvars, mvars>>

\* const intakeData = { chief_complaint: formData.chiefComplaint, ... }
IntakeData(h) == h.snap.formData

\* handleSubmit after `await stopListening()`: the profile update (which
\* carries no dictated field) is issued.
FormSubmitResumes(h) ==
    /\ h \in pending
    /\ h.owner = "form"
    /\ h.handler = "handleSubmit"
    /\ h.pc = "stopped"
    /\ submit' = SubmitBegins(submit)
    /\ pending' = (pending \ {h}) \cup {Suspend(h, "update", 0)}
    /\ UNCHANGED <<formState, timers, transcriptions, sessions, chat, others>>
    /\ UNCHANGED <<avars, tvars, rvars, mvars>>

\* The profile update answers: without error the intake row is built and
\* its insert issued, with an error handleSubmit ends in its catch block.
FormUpdateSettles(h, ok) ==
    /\ h \in pending
    /\ h.owner = "form"
    /\ h.handler = "handleSubmit"
    /\ h.pc = "update"
    /\ IF ok
       THEN /\ submit' = [submit EXCEPT
                            !.writes = @ \o <<Write("update", "ok"),
                                              Write("insert", "issued")>>]
            /\ pending' = (pending \ {h}) \cup {Suspend(h, "insert", 0)}
       ELSE /\ submit' = SubmitFailed(submit, "update")
            /\ pending' = pending \ {h}
    /\ UNCHANGED <<formState, timers, transcriptions, sessions, chat, others>>
    /\ UNCHANGED <<avars, tvars, rvars, mvars>>

\* The insert answers: the row is stored, the success message shown and the
\* medical fields reset ("Reset medical fields but keep personal info"), or
\* handleSubmit ends in its catch block.
FormSubmitDone(h, ok) ==
    /\ h \in pending
    /\ h.owner = "form"
    /\ h.pc = "insert"
    /\ IF ok
       THEN /\ intakeRows' = Append(intakeRows, IntakeData(h))
            /\ formData' = [f \in Fields |-> ""]
            /\ submit' = [submit EXCEPT
                            !.submitMessage = SubmittedMessage,
                            !.isSubmitting = FALSE,
                            !.writes = Append(@, Write("insert", "ok"))]
       ELSE /\ submit' = SubmitFailed(submit, "insert")
            /\ UNCHANGED <<formData, intakeRows>>
    /\ pending' = pending \ {h}
    /\ UNCHANGED <<voiceState, currentField, recordingTimeoutRef, timers, transcriptions,
                   sessions, chat, mounted, chatKind>>
    /\ UNCHANGED <<avars, tvars, rvars, mvars>>

\* A transcribe() call of a component, as it is when the call is made.
NewTranscription(h) ==
    [owner |-> h.owner, stopCall |-> h.call, blob |-> stopCalls[h.call].blob,
     status |-> "pending", result |-> NoResult,
     target |-> "none", before |-> "", after |-> ""]

\* `await promise` returns (rather than throws) when the promise resolved
AwaitReturns_Anyway(call) == call.status \in {"resolved", "rejected"}

AwaitReturns(call) == call.status = "resolved"

\* `else if (result.text)`: the transcript is not empty
HasText_Always(result) == TRUE

HasText(result) == result.text # ""

\* currentValue + (currentValue ? ' ' : '') + result.text.trim()
Merge(currentValue, text) ==
    currentValue \o (IF currentValue # "" THEN " " ELSE "") \o Trim(text)

\* stopListening of the form resumes after `await voiceAPI.stopRecording()`:
\* on to transcribe, or through catch and finally.
FormStopRecordingSettled(h) ==
    /\ h \in pending
    /\ h.owner = "form"
    /\ h.pc = "stopRecording"
    /\ LET call == stopCalls[h.call]
           rest == pending \ {h}
       IN  \/ /\ AwaitReturns(call)
              /\ voiceState' = [voiceState EXCEPT !.isListening = FALSE,
                                                  !.error = TranscribingMessage("form")]
              /\ transcriptions' = Append(transcriptions, NewTranscription(h))
              /\ pending' = rest \cup {Suspend(h, "transcribe", Len(transcriptions) + 1)}
              /\ UNCHANGED <<currentField, timers>>
           \/ /\ call.status = "rejected"
              /\ voiceState' = [voiceState EXCEPT
                    !.isListening = FALSE,
                    !.error = StrOr(call.error, "Failed to process voice recording")]
              /\ currentField' = "none"
              /\ timers' = ClearRecordingTimeout(timers)
              /\ pending' = rest \cup FormAfterStop(h)
              /\ UNCHANGED transcriptions
    /\ UNCHANGED <<formData, recordingTimeoutRef, sessions, chat, others>>
    /\ UNCHANGED <<avars, svars, tvars, rvars, mvars>>

\* voiceAPI.transcribe resolves (it never rejects).
TranscribeSettles(t, result) ==
    /\ t \in 1..Len(transcriptions)
    /\ transcriptions[t].status = "pending"
    /\ transcriptions' = [transcriptions EXCEPT
          ![t] = [@ EXCEPT !.status = "resolved", !.result = result]]
    /\ UNCHANGED <<formState, timers, sessions, chat, pending, others>>
    /\ UNCHANGED <<avars, svars, tvars, rvars, mvars>>

\* stopListening of the form resumes after `await voiceAPI.transcribe(...)`
\* and runs to its end, finally block included.
FormTranscribeSettled(h) ==
    /\ h \in pending
    /\ h.owner = "form"
    /\ h.pc = "transcribe"
    /\ transcriptions[h.call].status = "resolved"
    /\ LET result == transcriptions[h.call].result
           field == h.snap.currentField
           kept == ClearRecordingTimeout(timers)
       IN  IF HasError(result)
           THEN /\ voiceState' = [voiceState EXCEPT
                      !.error = StrOr(result.error, "Failed to transcribe audio")]
                /\ timers' = kept
                /\ transcriptions' = [transcriptions EXCEPT ![h.call].status = "handled"]
                /\ UNCHANGED formData
           ELSE IF HasText(result)
           THEN /\ formData' = [formData EXCEPT ![field] = Merge(@, result.text)]
                /\ voiceState' = [voiceState EXCEPT !.error = TranscribedMessage(result)]
                /\ timers' = kept \cup {[kind |-> "clearError", id |-> h.call]}
                /\ transcriptions' = [transcriptions EXCEPT ![h.call] =
                      [@ EXCEPT !.status = "handled", !.target = field,
                                !.before = formData[field],
                                !.after = Merge(formData[field], result.text)]]
           ELSE /\ voiceState' = [voiceState EXCEPT !.error = NoSpeechMessage("form")]
                /\ timers' = kept
                /\ transcriptions' = [transcriptions EXCEPT ![h.call].status = "handled"]
                /\ UNCHANGED formData
    /\ currentField' = "none"
    /\ pending' = (pending \ {h}) \cup FormAfterStop(h)
    /\ UNCHANGED <<recordingTimeoutRef, sessions, chat, others>>
    /\ UNCHANGED <<avars, svars, tvars, rvars, mvars>>

\* `await new Promise(resolve => setTimeout(resolve, 500))` is over:
\* startListening goes on for the new field.
FormWaitElapsed(h) ==
    /\ h \in pending
    /\ h.owner = "form"
    /\ h.pc = "wait500"
    /\ FormBegin(h, pending \ {h})
    /\ UNCHANGED <<avars, svars, tvars, mvars>>

\* startListening of the form resumes after `await voiceAPI.startRecording()`:
\* it arms the 30 s auto-stop, or runs its catch block.
FormStartRecordingSettled(h) ==
    /\ h \in pending
    /\ h.owner = "form"
    /\ h.pc = "startRecording"
    /\ LET call == startCalls[h.call]
       IN  \/ /\ call.status = "resolved"
              /\ recordingTimeoutRef' = h.call
              /\ timers' = timers \cup
                    {[kind |-> "autoStop", id |-> h.call, snap |-> h.snap]}
              /\ UNCHANGED <<voiceState, currentField>>
           \/ /\ call.status = "rejected"
              /\ voiceState' = [voiceState EXCEPT
                    !.isListening = FALSE,
                    !.error = StrOr(call.error,
                                    "Failed to start voice recording. Please try again.")]
              /\ currentField' = "none"
              /\ UNCHANGED <<recordingTimeoutRef, timers>>
    /\ pending' = pending \ {h}
    /\ UNCHANGED <<formData, transcriptions, sessions, chat, others>>
    /\ UNCHANGED <<avars, svars, tvars, rvars, mvars>>

\* The 30 s timer armed by startListening runs its callback:
\* if (voiceState.isListening) await stopListening(), both as the render
\* that armed the timer saw them.
FormAutoStop(t) ==
    /\ t \in timers
    /\ t.kind = "autoStop"
    /\ IF t.snap.isListening
       THEN /\ Room
            /\ FormStop(Invocation("form", "autoStop", t.snap, "none"), pending,
                        timers \ {t})
       ELSE /\ timers' = timers \ {t}
            /\ UNCHANGED <<rvars, formState, pending, transcriptions, sessions, chat, others>>
    /\ UNCHANGED <<avars, svars, tvars, mvars>>

\* A 3 s timer runs: setVoiceState(prev => ({ ...prev, error: '' }))
FormClearError(t) ==
    /\ t \in timers
    /\ t.kind \in {"clearError", "clearTest"}
    /\ voiceState' = [voiceState EXCEPT !.error = ""]
    /\ timers' = timers \ {t}
    /\ UNCHANGED <<currentField, formData, recordingTimeoutRef, pending, transcriptions,
                   sessions, chat, others>>
    /\ UNCHANGED <<avars, svars, tvars, rvars, mvars>>

\* ---- TriageChatbot / MiniTriageChat ----

\* The values a handler of the chat closes over.
ChatSnapshot ==
    [isListening |-> chat.isListening,
     hasVoicePermission |-> chat.hasVoicePermission,
     inputText |-> chat.inputText]

ChatStartFailedMessage(error) ==
    IF chatKind = "mini"
    THEN "Failed to start voice recording. Please try again."
    ELSE StrOr(error, "Failed to start voice recording")

ChatStopFailedMessage == "Failed to process voice input. Please try again."

\* setTimeout(() => setSpeechError(''), 5000): TriageChatbot only
ErrorTimer(id) ==
    IF chatKind = "triage" THEN {[kind |-> "clearSpeechError", id |-> id]} ELSE {}

\* Where invocation h goes on when its `await stopListening()` returns:
\* handleSendMessage of TriageChatbot sends, everything else is done.
ChatAfterStop(h) ==
    IF h.handler = "handleSendMessage" THEN {Suspend(h, "stopped", 0)} ELSE {}

\* startListening of the chat from `try { setSpeechError('') ...` to
\* `await voiceAPI.startRecording()`; c is the chat state as set so far.
ChatRecord(h, rest, c) ==
    /\ chat' = [c EXCEPT !.speechError = "", !.isListening = TRUE]
    /\ StartRecordingCall
    /\ sessions' = Append(sessions, [owner |-> "chat", field |-> "inputText"])
    /\ pending' = rest \cup {Suspend(h, "startRecording", Len(startCalls) + 1)}
    /\ UNCHANGED <<formState, timers, transcriptions, others>>

\* stopListening of the chat up to `await voiceAPI.stopRecording()`, run by
\* invocation h. MiniTriageChat's handleSendMessage does not await it: it
\* goes on at once (sent), clearing the input and the message.
ChatStop(h, rest, sent) ==
    LET processing == IF h.snap.isListening
                      THEN [chat EXCEPT !.speechError = ProcessingMessage]
                      ELSE chat
    IN  /\ chat' = IF sent
                   THEN [processing EXCEPT !.inputText = "", !.speechError = ""]
                   ELSE processing
        /\ IF ~h.snap.isListening
           THEN /\ pending' = rest \cup ChatAfterStop(h)
                /\ UNCHANGED rvars
           ELSE /\ StopRecordingCall
                /\ pending' = rest \cup {Suspend(h, "stopRecording", Len(stopCalls) + 1)}
        /\ UNCHANGED <<formState, timers, transcriptions, sessions, others>>

\* The chat mounts (the triage view, or the floating widget is opened):
\* its effect calls initVoice.
ChatMount ==
    /\ mounted = {}
    /\ Room
    /\ mounted' = mounted \cup {"chat"}
    /\ RequestMicrophonePermission
    /\ pending' = pending \cup
          {Suspend(Invocation("chat", "initVoice", ChatSnapshot, "inputText"),
                   "permission", Len(permCalls) + 1)}
    /\ UNCHANGED <<formState, timers, transcriptions, sessions, chat, chatKind, intakeRows>>
    /\ UNCHANGED <<avars, svars, tvars, mvars>>

\* requestMicrophonePermission() returned to a handler of the chat.
ChatPermissionSettled(h) ==
    /\ h \in pending
    /\ h.owner = "chat"
    /\ h.pc = "permission"
    /\ permCalls[h.call].status = "returned"
    /\ LET ok == permCalls[h.call].result
           rest == pending \ {h}
       IN  IF h.handler = "initVoice"
           THEN /\ chat' = [chat EXCEPT
                      !.hasVoicePermission = ok,
                      !.speechError = IF ~ok /\ chatKind = "triage"
                                      THEN MountDeniedMessage ELSE @]
                /\ pending' = rest
                /\ UNCHANGED <<rvars, formState, timers, transcriptions, sessions, others>>
           ELSE IF ok
           THEN ChatRecord(h, rest, [chat EXCEPT !.hasVoicePermission = TRUE])
           ELSE /\ chat' = [chat EXCEPT !.speechError = StartDeniedMessage]
                /\ pending' = rest
                /\ UNCHANGED <<rvars, formState, timers, transcriptions, sessions, others>>
    /\ UNCHANGED <<avars, svars, tvars, mvars>>

\* The user types into the empty chat input: setInputText(e.target.value)
ChatType ==
    /\ "chat" \in mounted
    /\ chat.inputText = ""
    /\ chat' = [chat EXCEPT !.inputText = TypedText]
    /\ UNCHANGED <<formState, timers, transcriptions, sessions, pending, others>>
    /\ UNCHANGED <<avars, svars, tvars, rvars, mvars>>

\* The microphone button of the chat: startListening().
ChatStartListening ==
    /\ "chat" \in mounted
    /\ Room
    /\ LET h == Invocation("chat", "startListening", ChatSnapshot, "inputText")
       IN  IF h.snap.isListening
           THEN ChatStop(h, pending, FALSE)
           ELSE IF ~h.snap.hasVoicePermission
           THEN /\ RequestMicrophonePermission
                /\ pending' = pending \cup {Suspend(h, "permission", Len(permCalls) + 1)}
                /\ UNCHANGED <<formState, timers, transcriptions, sessions, chat, others>>
           ELSE ChatRecord(h, pending, chat)
    /\ UNCHANGED <<avars, svars, tvars, mvars>>

\* Send (button or Enter) with a non-blank input: handleSendMessage up to
\* its first await (TriageChatbot), or to its end (MiniTriageChat).
ChatSendMessage ==
    /\ "chat" \in mounted
    /\ NonBlank(chat.inputText)
    /\ Room
    /\ IF chatKind = "mini"
       THEN ChatStop(Invocation("chat", "stopListening", ChatSnapshot, "inputText"),
                     pending, TRUE)
       ELSE IF chat.isListening
       THEN ChatStop(Invocation("chat", "handleSendMessage", ChatSnapshot, "inputText"),
                     pending, FALSE)
       ELSE /\ chat' = [chat EXCEPT !.inputText = ""]
            /\ UNCHANGED <<rvars, formState, timers, transcriptions, sessions, pending,
                           others>>
    /\ UNCHANGED <<avars, svars, tvars, mvars>>

\* stopListening of the chat resumes after `await voiceAPI.stopRecording()`.
ChatStopRecordingSettled(h) ==
    /\ h \in pending
    /\ h.owner = "chat"
    /\ h.pc = "stopRecording"
    /\ LET call == stopCalls[h.call]
           rest == pending \ {h}
       IN  \/ /\ AwaitReturns(call)
              /\ chat' = [chat EXCEPT !.speechError = TranscribingMessage("chat")]
              /\ transcriptions' = Append(transcriptions, NewTranscription(h))
              /\ pending' = rest \cup {Suspend(h, "transcribe", Len(transcriptions) + 1)}
              /\ UNCHANGED timers
           \/ /\ call.status = "rejected"
              /\ chat' = [chat EXCEPT !.speechError = ChatStopFailedMessage,
                                      !.isListening = FALSE]
              /\ timers' = timers \cup ErrorTimer(0 - h.call)
              /\ pending' = rest \cup ChatAfterStop(h)
              /\ UNCHANGED transcriptions
    /\ UNCHANGED <<formState, sessions, others>>
    /\ UNCHANGED <<avars, svars, tvars, rvars, mvars>>

\* stopListening of the chat resumes after `await voiceAPI.transcribe(...)`
\* and runs to its end, finally block included.
ChatTranscribeSettled(h) ==
    /\ h \in pending
    /\ h.owner = "chat"
    /\ h.pc = "transcribe"
    /\ transcriptions[h.call].status = "resolved"
    /\ LET result == transcriptions[h.call].result
           idle == [chat EXCEPT !.isListening = FALSE]
       IN  IF HasError(result)
           THEN /\ chat' = [idle EXCEPT !.speechError = result.error]
                /\ timers' = timers \cup ErrorTimer(h.call)
                /\ transcriptions' = [transcriptions EXCEPT ![h.call].status = "handled"]
           ELSE IF HasText(result)
           THEN /\ chat' = [idle EXCEPT !.inputText = result.text, !.speechError = ""]
                /\ UNCHANGED timers
                /\ transcriptions' = [transcriptions EXCEPT ![h.call] =
                      [@ EXCEPT !.status = "handled", !.target = "inputText",
                                !.before = chat.inputText, !.after = result.text]]
           ELSE /\ chat' = [idle EXCEPT !.speechError = NoSpeechMessage("chat")]
                /\ timers' = timers \cup ErrorTimer(h.call)
                /\ transcriptions' = [transcriptions EXCEPT ![h.call].status = "handled"]
    /\ pending' = (pending \ {h}) \cup ChatAfterStop(h)
    /\ UNCHANGED <<formState, sessions, others>>
    /\ UNCHANGED <<avars, svars, tvars, rvars, mvars>>

\* handleSendMessage of TriageChatbot after `await stopListening()`: the
\* message is the input as the handler's render saw it, and the input is
\* emptied.
ChatSendResumes(h) ==
    /\ h \in pending
    /\ h.owner = "chat"
    /\ h.pc = "stopped"
    /\ chat' = [chat EXCEPT !.inputText = ""]
    /\ pending' = pending \ {h}
    /\ UNCHANGED <<formState, timers, transcriptions, sessions, others>>
    /\ UNCHANGED <<avars, svars, tvars, rvars, mvars>>

\* startListening of the chat resumes after `await voiceAPI.startRecording()`.
ChatStartRecordingSettled(h) ==
    /\ h \in pending
    /\ h.owner = "chat"
    /\ h.pc = "startRecording"
    /\ LET call == startCalls[h.call]
       IN  \/ /\ call.status = "resolved"
              /\ UNCHANGED chat
           \/ /\ call.status = "rejected"
              /\ chat' = [chat EXCEPT !.isListening = FALSE,
                                      !.speechError = ChatStartFailedMessage(call.error)]
    /\ pending' = pending \ {h}
    /\ UNCHANGED <<formState, timers, transcriptions, sessions, others>>
    /\ UNCHANGED <<avars, svars, tvars, rvars, mvars>>

\* A 5 s timer of TriageChatbot runs: setSpeechError('')
ChatClearSpeechError(t) ==
    /\ t \in timers
    /\ t.kind = "clearSpeechError"
    /\ chat' = [chat EXCEPT !.speechError = ""]
    /\ timers' = timers \ {t}
    /\ UNCHANGED <<formState, transcriptions, sessions, pending, others>>
    /\ UNCHANGED <<avars, svars, tvars, rvars, mvars>>

\* The application as loaded: no view mounted yet, the provider variant of
\* voiceAPI bundled, a browser that records webm/opus.
VoiceInit ==
    /\ chatKind \in ChatKinds
    /\ mounted = {}
    /\ voiceState = InitialVoiceState
    /\ currentField = "none"
    /\ formData = [f \in Fields |-> ""]
    /\ recordingTimeoutRef = 0
    /\ timers = {}
    /\ chat = InitialChat
    /\ pending = {}
    /\ transcriptions = <<>>
    /\ sessions = <<>>
    /\ intakeRows = <<>>
    /\ variant = "providers"
    /\ supportedTypes = {"audio/webm;codecs=opus", "audio/webm"}
    /\ stopInactiveThrows \in BOOLEAN
    /\ streams = <<>>
    /\ isRecording = FALSE
    /\ mediaRecorder = 0
    /\ audioChunks = <<>>
    /\ startCalls = <<>>
    /\ stopCalls = <<>>
    /\ permCalls = <<>>

InitVoice == VoiceInit /\ TIdle /\ MIdle /\ AuthReady("u1")

NextVoice ==
    \/ FormMount
    \/ FormTestMicrophone
    \/ \E h \in pending : FormPermissionSettled(h)
    \/ \E field \in Fields : FormStartListening(field)
    \/ FormStopClick
    \/ FormSubmit
    \/ \E h \in pending : FormSubmitResumes(h)
    \/ \E h \in pending : FormUpdateSettles(h, TRUE)
    \/ \E h \in pending : FormSubmitDone(h, TRUE)
    \/ \E h \in pending : FormStopRecordingSettled(h)
    \/ \E h \in pending : FormTranscribeSettled(h)
    \/ \E h \in pending : FormWaitElapsed(h)
    \/ \E h \in pending : FormStartRecordingSettled(h)
    \/ \E t \in timers : FormAutoStop(t)
    \/ \E t \in timers : FormClearError(t)
    \/ ChatMount
    \/ \E h \in pending : ChatPermissionSettled(h)
    \/ ChatType
    \/ ChatStartListening
    \/ ChatSendMessage
    \/ \E h \in pending : ChatStopRecordingSettled(h)
    \/ \E h \in pending : ChatTranscribeSettled(h)
    \/ \E h \in pending : ChatSendResumes(h)
    \/ \E h \in pending : ChatStartRecordingSettled(h)
    \/ \E t \in timers : ChatClearSpeechError(t)
    \/ \E c \in 1..MaxPermissionCalls, granted \in BOOLEAN : PermissionAnswered(c, granted)
    \/ \E c \in 1..MaxStarts : MediaGranted(c)
    \/ \E c \in 1..MaxStarts : MediaRefused(c, "NotFoundError")
    \/ \E r \in 1..MaxStarts : StopEvent(r)
    \/ \E r \in 1..MaxStarts : RecorderError(r)
    \/ \E t \in 1..MaxStops, result \in TranscribeReturns : TranscribeSettles(t, result)

SpecVoice == InitVoice /\ [][NextVoice]_vars

-----------------------------------------------------------------------------
\* The relay (server/index.ts, POST /chat), the relay variant of
\* voiceAPI.transcribe, and the minimal VoiceIntakeForm that uses it.

MaxRelayRequests == 2

\* The base64 text of a recording that holds audio.
AudioBase64 == "QUJD"

\* JSON bodies a client posts: each field absent, empty or set.
RelayBodies ==
    {EmptyBody}
        \cup [message : {"", "hello"}]
        \cup [audioBase64 : {"", AudioBase64}]
        \cup [message : {"", "hello"}, audioBase64 : {"", AudioBase64}]

AudioPrompt(audioBase64) ==
    "Transcribe this patient audio (base64-encoded): " \o audioBase64

\* const prompt = audioBase64 ? `Transcribe ...${audioBase64}` : message
\* ("" stands for undefined as well: both are falsy)
RelayPrompt_AudioPhrasing(body) == AudioPrompt(FieldOr(body, "audioBase64", ""))

RelayPrompt(body) ==
    IF FieldOr(body, "audioBase64", "") # ""
    THEN AudioPrompt(body.audioBase64)
    ELSE FieldOr(body, "message", "")

\* if (!prompt)
NoPrompt_Never(prompt) == FALSE

NoPrompt(prompt) == prompt = ""

NoInputAnswer == [status |-> 400, body |-> [response |-> "No message or audioBase64 provided."]]

UnreachableAnswer == [status |-> 500, body |-> [response |-> "Error: Unable to reach AI model."]]

\* What the fetch of http://localhost:11434/api/generate comes to: it
\* rejects, its body is no JSON, or it is a JSON answer of the model
\* server (a generation, or an error object with a non-2xx status).
ModelOutcomes ==
    {[kind |-> "networkError"], [kind |-> "badJson"]}
        \cup [kind : {"json"}, status : {200}, body : {EmptyBody} \cup [response : {SpokenText, ""}]]
        \cup [kind : {"json"}, status : {404, 500}, body : [error : {"model 'med-intake' not found"}]]

\* The try block after the fetch settled: response.json() and res.json(...)
\* or, from the catch block, status 500.
RelayAnswer(outcome) ==
    IF outcome.kind \in {"networkError", "badJson"}
    THEN UnreachableAnswer
    ELSE [status |-> 200,
          body |-> [response |-> Trim(FieldOr(outcome.body, "response", ""))]]

\* POST /chat arrives with `body`, from transcribe call `client` (0: from
\* any other client): the handler runs to its 400 answer or to its fetch.
PostChatCall(body, client) ==
    /\ Len(relayRequests) < MaxRelayRequests
    /\ LET prompt == RelayPrompt(body)
           request == [body |-> body, client |-> client, prompt |-> prompt,
                       outcome |-> NoResult]
       IN  relayRequests' = Append(relayRequests,
              IF NoPrompt(prompt)
              THEN request @@ [pc |-> "done", forwarded |-> <<>>,
                               answers |-> <<NoInputAnswer>>]
              ELSE request @@ [pc |-> "awaitingModel",
                               forwarded |-> <<[model |-> "med-intake", prompt |-> prompt,
                                                stream |-> FALSE]>>,
                               answers |-> <<>>])

\* State of the components that a step of the relay or of the minimal form
\* leaves alone.
uiState == <<formState, timers, chat, sessions, others>>

PostChat(body) ==
    /\ PostChatCall(body, 0)
    /\ UNCHANGED <<minimal, unhandled, uiState, pending, transcriptions>>
    /\ UNCHANGED <<avars, svars, tvars, rvars>>

\* The fetch of the model endpoint settles and the handler runs to its end.
ModelAnswers(q, outcome) ==
    /\ q \in 1..Len(relayRequests)
    /\ relayRequests[q].pc = "awaitingModel"
    /\ relayRequests' = [relayRequests EXCEPT ![q] =
          [@ EXCEPT !.pc = "done", !.outcome = outcome,
                    !.answers = Append(@, RelayAnswer(outcome))]]
    /\ UNCHANGED <<minimal, unhandled, uiState, pending, transcriptions>>
    /\ UNCHANGED <<avars, svars, tvars, rvars>>

\* ---- voiceAPI.transcribe, relay variant ----

\* blobToBase64: what follows the comma of the data URL
BlobToBase64(blob) == IF blob.chunks = <<>> THEN "" ELSE AudioBase64

RelayRequestOf(t) == {q \in 1..Len(relayRequests) : relayRequests[q].client = t}

\* transcribe after `await this.blobToBase64(audioBlob)`: the fetch of
\* http://localhost:5000/chat reaches the relay.
RelayFetch(t) ==
    /\ variant = "relay"
    /\ t \in 1..Len(transcriptions)
    /\ transcriptions[t].status = "pending"
    /\ RelayRequestOf(t) = {}
    /\ PostChatCall([audioBase64 |-> BlobToBase64(transcriptions[t].blob)], t)
    /\ UNCHANGED <<minimal, unhandled, uiState, pending, transcriptions>>
    /\ UNCHANGED <<avars, svars, tvars, rvars>>

\* return { text: data.response || '', confidence: 1.0 } for the answer of
\* the relay, whatever its status
RelayTranscribeResult(answer) ==
    [text |-> FieldOr(answer.body, "response", ""), confidence |-> 100]

\* The fetch rejects (the relay is not running): the catch block.
RelayFetchFails(t) ==
    /\ variant = "relay"
    /\ RelayRequestOf(t) = {}
    /\ TranscribeSettles(t, [text |-> "", error |-> "Failed to fetch"])

\* The relay answered and transcribe returns.
RelayTranscribeSettles(t) ==
    /\ variant = "relay"
    /\ \E q \in RelayRequestOf(t) :
          /\ relayRequests[q].pc = "done"
          /\ TranscribeSettles(t, RelayTranscribeResult(relayRequests[q].answers[1]))

\* transcribe of the provider variant returns.
ProvidersTranscribeSettles(t, result) ==
    /\ variant = "providers"
    /\ TranscribeSettles(t, result)

\* ---- the minimal VoiceIntakeForm ----

\* handleStart up to `await voiceAPI.requestMicrophonePermission()`
MinimalHandleStart ==
    /\ "minimal" \in mounted
    /\ ~minimal.isRecording
    /\ Room
    /\ RequestMicrophonePermission
    /\ pending' = pending \cup
          {Suspend(Invocation("minimal", "handleStart", minimal, "transcript"),
                   "permission", Len(permCalls) + 1)}
    /\ UNCHANGED <<minimal, unhandled, relayRequests, uiState, transcriptions>>
    /\ UNCHANGED <<avars, svars, tvars>>

\* handleStart after the permission request: the denial message, or on to
\* `await voiceAPI.startRecording()`.
MinimalPermissionSettled(h) ==
    /\ h \in pending
    /\ h.owner = "minimal"
    /\ h.pc = "permission"
    /\ permCalls[h.call].status = "returned"
    /\ IF ~permCalls[h.call].result
       THEN /\ minimal' = [minimal EXCEPT !.error = "Microphone access denied"]
            /\ pending' = pending \ {h}
            /\ UNCHANGED rvars
       ELSE /\ minimal' = [minimal EXCEPT !.error = ""]
            /\ StartRecordingCall
            /\ pending' = (pending \ {h})
                             \cup {Suspend(h, "startRecording", Len(startCalls) + 1)}
    /\ UNCHANGED <<unhandled, relayRequests, uiState, transcriptions>>
    /\ UNCHANGED <<avars, svars, tvars>>

\* What becomes of a rejection of startRecording() in handleStart, which
\* has no try block: nothing catches it.
Uncaught(h, error) == {[handler |-> h.handler, error |-> error]}

\* handleStart after `await voiceAPI.startRecording()`.
MinimalStartRecordingSettled(h) ==
    /\ h \in pending
    /\ h.owner = "minimal"
    /\ h.pc = "startRecording"
    /\ LET call == startCalls[h.call]
       IN  \/ /\ AwaitReturns(call)
              /\ minimal' = [minimal EXCEPT !.isRecording = TRUE]
              /\ UNCHANGED unhandled
           \/ /\ call.status = "rejected"
              /\ unhandled' = unhandled \cup Uncaught(h, call.error)
              /\ UNCHANGED minimal
    /\ pending' = pending \ {h}
    /\ UNCHANGED <<relayRequests, uiState, transcriptions>>
    /\ UNCHANGED <<avars, svars, tvars, rvars>>

\* handleStop up to `await voiceAPI.stopRecording()`
MinimalHandleStop ==
    /\ "minimal" \in mounted
    /\ minimal.isRecording
    /\ Room
    /\ StopRecordingCall
    /\ pending' = pending \cup
          {Suspend(Invocation("minimal", "handleStop", minimal, "transcript"),
                   "stopRecording", Len(stopCalls) + 1)}
    /\ UNCHANGED <<minimal, unhandled, relayRequests, uiState, transcriptions>>
    /\ UNCHANGED <<avars, svars, tvars>>

\* handleStop after `await voiceAPI.stopRecording()`: on to transcribe, or
\* through catch and finally.
MinimalStopRecordingSettled(h) ==
    /\ h \in pending
    /\ h.owner = "minimal"
    /\ h.pc = "stopRecording"
    /\ LET call == stopCalls[h.call]
       IN  \/ /\ AwaitReturns(call)
              /\ transcriptions' = Append(transcriptions, NewTranscription(h))
              /\ pending' = (pending \ {h})
                               \cup {Suspend(h, "transcribe", Len(transcriptions) + 1)}
              /\ UNCHANGED minimal
           \/ /\ call.status = "rejected"
              /\ minimal' = [minimal EXCEPT !.error = call.error, !.isRecording = FALSE]
              /\ pending' = pending \ {h}
              /\ UNCHANGED transcriptions
    /\ UNCHANGED <<unhandled, relayRequests, uiState>>
    /\ UNCHANGED <<avars, svars, tvars, rvars>>

\* handleStop after `await voiceAPI.transcribe(blob)`, finally included.
MinimalTranscribeSettled(h) ==
    /\ h \in pending
    /\ h.owner = "minimal"
    /\ h.pc = "transcribe"
    /\ transcriptions[h.call].status = "resolved"
    /\ LET result == transcriptions[h.call].result
       IN  /\ minimal' = IF HasError(result)
                         THEN [minimal EXCEPT !.error = result.error, !.isRecording = FALSE]
                         ELSE [minimal EXCEPT !.transcript = result.text,
                                              !.isRecording = FALSE]
           /\ transcriptions' = [transcriptions EXCEPT ![h.call] =
                 [@ EXCEPT !.status = "handled",
                           !.target = IF HasError(result) THEN "none" ELSE "transcript",
                           !.before = minimal.transcript,
                           !.after = IF HasError(result) THEN minimal.transcript
                                     ELSE result.text]]
    /\ pending' = pending \ {h}
    /\ UNCHANGED <<unhandled, relayRequests, uiState>>
    /\ UNCHANGED <<avars, svars, tvars, rvars>>

\* The relay alone, with the clients that post to it.
InitRelay == TIdle /\ RIdle /\ CIdle /\ MIdle /\ AIdle

NextRelay ==
    \/ \E body \in RelayBodies : PostChat(body)
    \/ \E q \in 1..MaxRelayRequests, outcome \in ModelOutcomes : ModelAnswers(q, outcome)

SpecRelay == InitRelay /\ [][NextRelay]_vars

\* The minimal form is on screen, with either voiceAPI module; the relay
\* variant posts its recordings to the relay.
MinimalInit ==
    /\ mounted = {"minimal"}
    /\ chatKind = "mini"
    /\ voiceState = InitialVoiceState
    /\ currentField = "none"
    /\ formData = [f \in Fields |-> ""]
    /\ recordingTimeoutRef = 0
    /\ timers = {}
    /\ chat = InitialChat
    /\ pending = {}
    /\ transcriptions = <<>>
    /\ sessions = <<>>
    /\ intakeRows = <<>>
    /\ variant \in Variants
    /\ supportedTypes = {"audio/webm;codecs=opus", "audio/webm"}
    /\ stopInactiveThrows \in BOOLEAN
    /\ streams = <<>>
    /\ isRecording = FALSE
    /\ mediaRecorder = 0
    /\ audioChunks = <<>>
    /\ startCalls = <<>>
    /\ stopCalls = <<>>
    /\ permCalls = <<>>

InitMinimal == MinimalInit /\ TIdle /\ MIdle /\ AIdle

NextMinimal ==
    \/ MinimalHandleStart
    \/ \E h \in pending : MinimalPermissionSettled(h)
    \/ \E h \in pending : MinimalStartRecordingSettled(h)
    \/ MinimalHandleStop
    \/ \E h \in pending : MinimalStopRecordingSettled(h)
    \/ \E h \in pending : MinimalTranscribeSettled(h)
    \/ \E t \in 1..MaxStops : RelayFetch(t)
    \/ \E t \in 1..MaxStops : RelayFetchFails(t)
    \/ \E q \in 1..MaxRelayRequests, outcome \in ModelOutcomes : ModelAnswers(q, outcome)
    \/ \E t \in 1..MaxStops : RelayTranscribeSettles(t)
    \/ \E t \in 1..MaxStops, result \in TranscribeReturns : ProvidersTranscribeSettles(t, result)
    \/ \E c \in 1..MaxPermissionCalls, granted \in BOOLEAN : PermissionAnswered(c, granted)
    \/ \E c \in 1..MaxStarts : MediaGranted(c)
    \/ \E c \in 1..MaxStarts : MediaRefused(c, "NotAllowedError")
    \/ \E r \in 1..MaxStarts : DataAvailable(r)
    \/ \E r \in 1..MaxStarts : StopEvent(r)
    \/ \E r \in 1..MaxStarts : RecorderError(r)

SpecMinimal == InitMinimal /\ [][NextMinimal]_vars

-----------------------------------------------------------------------------
\* Closing the hosting UI: App renders another page instead of
\* VoiceIntakeForm or TriageChatbot, FloatingChatWidget sets isOpen to
\* false. The component instance and its state are gone, a later mount
\* starts from the useState values; the handlers suspended at an await go
\* on running, their setState calls changing nothing.

\* The handlers of the instance that was unmounted.
Orphaned(hs) == {[h EXCEPT !.owner = "unmounted"] : h \in hs}

\* VoiceIntakeForm unmounts: the cleanup of its effect clears the auto-stop
\* timer, and nothing else.
FormUnmount ==
    /\ "form" \in mounted
    /\ mounted' = mounted \ {"form"}
    /\ voiceState' = InitialVoiceState
    /\ currentField' = "none"
    /\ formData' = [f \in Fields |-> ""]
    /\ recordingTimeoutRef' = 0
    /\ timers' = {}
    /\ pending' = Orphaned(pending)
    /\ UNCHANGED <<chat, chatKind, transcriptions, sessions, intakeRows>>
    /\ UNCHANGED <<avars, svars, tvars, rvars, mvars>>

\* The chat unmounts (the modal is closed, or the triage page is left): it
\* has no cleanup at all.
ChatClose ==
    /\ "chat" \in mounted
    /\ mounted' = mounted \ {"chat"}
    /\ chat' = InitialChat
    /\ timers' = {}
    /\ pending' = Orphaned(pending)
    /\ UNCHANGED <<formState, chatKind, transcriptions, sessions, intakeRows>>
    /\ UNCHANGED <<avars, svars, tvars, rvars, mvars>>

\* A handler of an unmounted instance resumes from its await: it makes the
\* service calls its code makes, and its state updates are dropped.
UnmountedResumes(h) ==
    /\ h \in pending
    /\ h.owner = "unmounted"
    /\ LET rest == pending \ {h}
           record == /\ StartRecordingCall
                     /\ sessions' = Append(sessions, [owner |-> "unmounted",
                                                      field |-> h.field])
                     /\ pending' = rest \cup {Suspend(h, "startRecording",
                                                      Len(startCalls) + 1)}
                     /\ UNCHANGED transcriptions
           done == /\ pending' = rest
                   /\ UNCHANGED <<rvars, sessions, transcriptions>>
       IN  CASE h.pc = "permission" ->
                  /\ permCalls[h.call].status = "returned"
                  /\ IF h.handler = "startListening" /\ permCalls[h.call].result
                     THEN record
                     ELSE done
             [] h.pc = "wait500" ->
                  IF h.snap.hasPermission
                  THEN record
                  ELSE /\ RequestMicrophonePermission
                       /\ pending' = rest \cup {Suspend(h, "permission",
                                                        Len(permCalls) + 1)}
                       /\ UNCHANGED <<sessions, transcriptions>>
             [] h.pc = "startRecording" ->
                  /\ startCalls[h.call].status \in {"resolved", "rejected"}
                  /\ done
             [] h.pc = "stopRecording" ->
                  \/ /\ AwaitReturns(stopCalls[h.call])
                     /\ transcriptions' = Append(transcriptions, NewTranscription(h))
                     /\ pending' = rest \cup {Suspend(h, "transcribe",
                                                      Len(transcriptions) + 1)}
                     /\ UNCHANGED <<rvars, sessions>>
                  \/ /\ stopCalls[h.call].status = "rejected"
                     /\ done
             [] h.pc = "transcribe" ->
                  /\ transcriptions[h.call].status = "resolved"
                  /\ transcriptions' = [transcriptions EXCEPT ![h.call].status = "handled"]
                  /\ pending' = rest
                  /\ UNCHANGED <<rvars, sessions>>
             [] OTHER -> done
    /\ UNCHANGED <<formState, timers, chat, others>>
    /\ UNCHANGED <<avars, svars, tvars, mvars>>

\* Mounting, the steps of a recording session, and closing.
NextClose ==
    \/ FormMount
    \/ \E h \in pending : FormPermissionSettled(h)
    \/ \E field \in Fields : FormStartListening(field)
    \/ FormStopClick
    \/ \E h \in pending : FormStopRecordingSettled(h)
    \/ \E h \in pending : FormTranscribeSettled(h)
    \/ \E h \in pending : FormWaitElapsed(h)
    \/ \E h \in pending : FormStartRecordingSettled(h)
    \/ FormUnmount
    \/ ChatMount
    \/ \E h \in pending : ChatPermissionSettled(h)
    \/ ChatStartListening
    \/ \E h \in pending : ChatStopRecordingSettled(h)
    \/ \E h \in pending : ChatTranscribeSettled(h)
    \/ \E h \in pending : ChatStartRecordingSettled(h)
    \/ ChatClose
    \/ \E h \in pending : UnmountedResumes(h)
    \/ \E c \in 1..MaxPermissionCalls, granted \in BOOLEAN : PermissionAnswered(c, granted)
    \/ \E c \in 1..MaxStarts : MediaGranted(c)
    \/ \E c \in 1..MaxStarts : MediaRefused(c, "NotFoundError")
    \/ \E r \in 1..MaxStarts : StopEvent(r)
    \/ \E t \in 1..MaxStops, result \in TranscribeReturns : TranscribeSettles(t, result)

\* The intake page with the floating widget, the two surfaces a user closes.
InitClose == InitVoice /\ chatKind = "mini"

SpecClose == InitClose /\ [][NextClose]_vars

-----------------------------------------------------------------------------
\* Properties of transcribe

Alternate == Other(tPreferred)

Returned(p) == adapterResult[p] # NoResult

PreferredFailed == Returned(tPreferred) /\ HasError(adapterResult[tPreferred])

AlternateSucceeded == Returned(Alternate) /\ ~HasError(adapterResult[Alternate])

BothFailed ==
    /\ PreferredFailed
    /\ Returned(Alternate)
    /\ HasError(adapterResult[Alternate])

NoDuplicates(seq) == \A i, j \in 1..Len(seq) : seq[i] = seq[j] => i = j

InSeq(x, seq) == \E i \in 1..Len(seq) : seq[i] = x

\* C1: when the preferred provider's adapter returns a failure and the
\* alternate's adapter returns a success, transcribe returns exactly the
\* alternate's result (same text and confidence, no error), whichever
\* provider is preferred; a preferred HTTP 500 followed by the alternate's
\* "fever for two days" at 0.87 yields exactly that text and confidence.
C1_FallbackIsTransparent ==
    tPc = "done" /\ PreferredFailed /\ AlternateSucceeded =>
        /\ tRet = adapterResult[Alternate]
        /\ ~HasError(tRet)
        /\ "error" \notin DOMAIN tRet
        /\ (/\ responses[tPreferred].kind = "http"
            /\ responses[tPreferred].status = 500
            /\ responses[Alternate] =
                 [kind |-> "ok",
                  body |-> [results |-> <<[alternatives |->
                      <<[transcript |-> "fever for two days", confidence |-> 87]>>]>>]]
            => tRet = [text |-> "fever for two days", confidence |-> 87])

C1_Witness ==
    /\ tPc = "done"
    /\ tPreferred = "openai"
    /\ responses["openai"].kind = "http"
    /\ responses["openai"].status = 500
    /\ AlternateSucceeded
    /\ tRet = [text |-> "fever for two days", confidence |-> 87]

\* C2: when both providers fail, the result has an empty text and carries
\* the error message of the provider tried last (the alternate); the code
\* has no errorKind field: an error on the returned result is what stands
\* for AllProvidersFailed, and it is set exactly when both providers failed.
C2_AllProvidersFailed ==
    tPc = "done" =>
        /\ BothFailed =>
            /\ tRet.text = ""
            /\ HasError(tRet)
            /\ tRet.error = adapterResult[Alternate].error
        /\ HasError(tRet) <=> BothFailed

C2_Witness ==
    /\ tPc = "done"
    /\ BothFailed
    /\ adapterResult[tPreferred].error # adapterResult[Alternate].error
    /\ tRet.error = adapterResult[Alternate].error
    /\ tRet.error # adapterResult[tPreferred].error

\* C3: a provider whose API key is absent is never sent a network request;
\* its adapter returns the "not configured" failure, and when it is the
\* preferred provider transcribe goes on to the other provider at once.
C3_MissingKeyNoRequest ==
    \A p \in Providers :
        ~apiKey[p] =>
            /\ ~InSeq(p, netRequests)
            /\ responses[p] = NoResponse
            /\ ~(tCur = p /\ tStage = "fetching")
            /\ Returned(p) =>
                /\ adapterResult[p] = KeyMissingResult(p)
                /\ HasError(adapterResult[p])
            /\ p = tPreferred /\ tPc \in {"second", "done"} =>
                adapterCalls = <<p, Other(p)>>

C3_Witness ==
    /\ tPc = "done"
    /\ ~apiKey[tPreferred]
    /\ apiKey[Alternate]
    /\ adapterCalls = <<tPreferred, Alternate>>
    /\ netRequests = <<Alternate>>
    /\ ~HasError(tRet)

\* C4: within one transcribe call the preferred provider is called first
\* and once, the alternate at most once and only after the preferred call
\* returned a failure, and no provider is called or requested twice.
C4_CallOrder ==
    tPc # "idle" =>
        /\ Len(adapterCalls) \in {1, 2}
        /\ adapterCalls[1] = tPreferred
        /\ Len(adapterCalls) = 2 =>
            /\ adapterCalls[2] = Alternate
            /\ PreferredFailed
        /\ NoDuplicates(adapterCalls)
        /\ NoDuplicates(netRequests)
        /\ \A i \in 1..Len(netRequests) : InSeq(netRequests[i], adapterCalls)
        /\ tPc = "first" => adapterCalls = <<tPreferred>>

C4_Witness ==
    /\ tPc = "done"
    /\ adapterCalls = <<tPreferred, Alternate>>
    /\ netRequests = <<tPreferred, Alternate>>

\* Provider B answered 200 with an empty results list.
GeminiAnsweredEmptyResults ==
    /\ responses["gemini"].kind = "ok"
    /\ "results" \in DOMAIN responses["gemini"].body
    /\ Len(responses["gemini"].body.results) = 0

\* C5 as claimed: a 200 answer of provider B with an empty results list is a
\* non-error "no transcript" result, and transcribe with provider B
\* preferred returns it without falling back to provider A.
C5_EmptyResultsIsNoTranscript ==
    GeminiAnsweredEmptyResults =>
        /\ adapterResult["gemini"].text = ""
        /\ ~HasError(adapterResult["gemini"])
        /\ tPreferred = "gemini" /\ tPc = "done" =>
            /\ tRet = adapterResult["gemini"]
            /\ ~InSeq("openai", adapterCalls)

\* C5 amended: a 200 answer of provider B with an empty results list is a
\* failure of the adapter (text empty, error "No transcription results from
\* Gemini"), so transcribe with provider B preferred falls back to provider
\* A and returns provider A's result.
C5_EmptyResultsIsFailure ==
    GeminiAnsweredEmptyResults =>
        /\ adapterResult["gemini"] =
             [text |-> "", error |-> "No transcription results from Gemini"]
        /\ HasError(adapterResult["gemini"])
        /\ tPreferred = "gemini" /\ tPc \in {"second", "done"} =>
            adapterCalls = <<"gemini", "openai">>
        /\ tPreferred = "gemini" /\ tPc = "done" =>
            tRet = adapterResult["openai"]

C5_Witness ==
    /\ GeminiAnsweredEmptyResults
    /\ tPreferred = "gemini"
    /\ tPc = "done"
    /\ adapterCalls = <<"gemini", "openai">>
    /\ tRet = [text |-> "fever for two days", confidence |-> 100]

-----------------------------------------------------------------------------
\* Properties of AudioCapture

\* Streams opened by startRecording that a recorder was built on and whose
\* tracks were never stopped.
LiveCaptureStreams ==
    {s \in 1..Len(streams) : streams[s].recorder # "none" /\ streams[s].stops = 0}

\* C6: at most one capture stream opened by startRecording is live at any
\* time, and a startRecording call made while a recording is open or while
\* an earlier startRecording still awaits its media stream is rejected with
\* "Already recording" and opens no stream.
C6_SingleCaptureStream ==
    /\ Cardinality(LiveCaptureStreams) <= 1
    /\ \A c \in 1..Len(startCalls) :
          startCalls[c].openAtCall =>
              /\ startCalls[c].status = "rejected"
              /\ startCalls[c].error = AlreadyRecordingMessage
              /\ startCalls[c].stream = 0

\* C7: a stopRecording call made while no recording is open (before any
\* start, after a failed start, after a completed stop) is rejected with the
\* "not recording" error before it touches the recorder.
C7_StopWhenIdleRejected ==
    \A c \in 1..Len(stopCalls) :
        ~stopCalls[c].openAtCall =>
            /\ stopCalls[c].status = "rejected"
            /\ stopCalls[c].error = NotRecordingMessage
            /\ ~stopCalls[c].pastGuard

\* C8: when a stopRecording call has resolved, the tracks of the stream of
\* the recorder it stopped were stopped exactly once, and isRecording was
\* false when it resolved.
C8_TracksReleasedOnce ==
    variant = "providers" =>
        \A c \in 1..Len(stopCalls) :
            stopCalls[c].status = "resolved" =>
                /\ stopCalls[c].exitStops = 1
                /\ streams[stopCalls[c].recorder].stops = 1
                /\ ~stopCalls[c].exitRecording

\* C9: when a stopRecording call that had a recorder to stop rejects, the
\* tracks of that recorder's stream have been stopped and isRecording is
\* false by the time it rejects.
C9_TracksReleasedOnError ==
    variant = "providers" =>
        \A c \in 1..Len(stopCalls) :
            stopCalls[c].status = "rejected" /\ stopCalls[c].pastGuard =>
                /\ stopCalls[c].exitStops >= 1
                /\ ~stopCalls[c].exitRecording

\* C10: when a startRecording call made while nothing was open fails (media
\* stream refused, or the recorder could not be built on the stream
\* obtained), the stream it obtained, if any, has its tracks stopped and
\* isRecording is false.
C10_FailedStartLeavesNothingOpen ==
    variant = "providers" =>
        \A c \in 1..Len(startCalls) :
            /\ startCalls[c].status = "rejected"
            /\ startCalls[c].error # AlreadyRecordingMessage
            /\ ~startCalls[c].openAtCall
            => /\ startCalls[c].stream # 0 => streams[startCalls[c].stream].stops >= 1
               /\ ~startCalls[c].exitRecording

-----------------------------------------------------------------------------
\* Properties of the voice session controllers

\* C11: requestMicrophonePermission never throws: every call that has
\* settled returned, true when getUserMedia granted a stream and false when
\* it refused; a call that obtained a probe stream stopped its tracks (once)
\* before returning and a refused call stopped nothing; and no step of a
\* permission request changes isRecording, mediaRecorder or audioChunks.
PermissionCallsSound ==
    \A c \in 1..Len(permCalls) :
        /\ permCalls[c].status \in {"awaitingMedia", "returned"}
        /\ permCalls[c].status = "returned"
            => /\ permCalls[c].result = permCalls[c].granted
               /\ permCalls[c].probeStops = IF permCalls[c].granted THEN 1 ELSE 0
        /\ permCalls[c].status = "awaitingMedia" => permCalls[c].probeStops = 0

NoticeMessages ==
    {"", TestingMessage, TestPassedMessage, TestFailedMessage, MountDeniedMessage}
        \cup {TranscribedMessage(r) : r \in {x \in TranscribeReturns : ~HasError(x)}}

\* The phase VoiceIntakeForm shows, read off its state.
FormPhase ==
    IF \E h \in pending : h.owner = "form" /\ h.handler = "startListening"
                          /\ h.pc = "permission"
    THEN "RequestingPermission"
    ELSE IF voiceState.error \in {ProcessingMessage, TranscribingMessage("form")}
    THEN "Processing"
    ELSE IF voiceState.isListening THEN "Recording"
    ELSE IF voiceState.error \notin NoticeMessages THEN "Error"
    ELSE "Idle"

PhaseEdges ==
    {<<"Idle", "RequestingPermission">>, <<"Idle", "Recording">>,
     <<"RequestingPermission", "Recording">>, <<"RequestingPermission", "Error">>,
     <<"Recording", "Processing">>, <<"Processing", "Idle">>,
     <<"Processing", "Error">>, <<"Error", "Idle">>}

\* C12: the phase of VoiceIntakeForm changes only along the edges of the
\* session state machine (so Processing is entered from Recording only),
\* and Recording is never shown without granted permission.
C12_PhaseEdges ==
    /\ [][FormPhase' # FormPhase => <<FormPhase, FormPhase'>> \in PhaseEdges]_vars
    /\ [](FormPhase = "Recording" => voiceState.hasPermission)

\* The startRecording() call that opened the recorder a transcription's
\* audio was stopped on, i.e. the session the transcript belongs to.
SessionOf(t) ==
    CHOOSE s \in 1..Len(startCalls) :
        startCalls[s].stream = stopCalls[transcriptions[t].stopCall].recorder

\* Transcriptions that ended with a non-empty transcript and were handled.
Delivered ==
    {t \in 1..Len(transcriptions) :
        /\ transcriptions[t].status = "handled"
        /\ ~HasError(transcriptions[t].result)
        /\ transcriptions[t].result.text # ""}

\* C13: a non-empty transcript is merged into the field (or chat input) its
\* session was started for: the new content is the old content, a space if
\* the old content was not empty, and the trimmed transcript.
C13_TextMerged ==
    \A t \in Delivered :
        /\ transcriptions[t].target = sessions[SessionOf(t)].field
        /\ transcriptions[t].after
             = Merge(transcriptions[t].before, transcriptions[t].result.text)

\* The messages a component shows when a session fails in Processing: the
\* error transcribe returned, no speech, or the failure of stopRecording.
ProcessingErrors(owner) ==
    {r.error : r \in {x \in TranscribeReturns : HasError(x)}}
        \cup {NoSpeechMessage(owner)}
        \cup (IF owner = "chat"
              THEN {ChatStopFailedMessage}
              ELSE {"Not currently recording", "InvalidStateError", "Recording error"})

\* C14: an error entered from Processing is cleared by a timer: while
\* VoiceIntakeForm or a chat shows such a message, a timer that will reset
\* its message is pending.
C14_ErrorsAutoClear ==
    /\ voiceState.error \in ProcessingErrors("form")
        => \E t \in timers : t.kind = "clearError"
    /\ chat.speechError \in ProcessingErrors("chat")
        => \E t \in timers : t.kind = "clearSpeechError"

\* Invocation h is at the end of a session that failed: stopRecording
\* rejected, or transcribe returned an error or an empty transcript, and
\* this step runs the rest of its stopListening.
FailedEnd(h) ==
    \/ /\ h.pc = "stopRecording"
       /\ stopCalls[h.call].status = "rejected"
       /\ h \notin pending'
    \/ /\ h.pc = "transcribe"
       /\ transcriptions[h.call].status = "resolved"
       /\ HasError(transcriptions[h.call].result) \/ transcriptions[h.call].result.text = ""
       /\ h \notin pending'

RecordingNow == {r \in 1..Len(streams) : streams[r].recorder = "recording"}

ProcessingNow ==
    {stopCalls[h.call].recorder :
        h \in {x \in pending : x.pc = "stopRecording"
                                /\ stopCalls[x.call].status = "pending"}}
        \cup {stopCalls[transcriptions[h.call].stopCall].recorder :
                h \in {x \in pending : x.pc = "transcribe"}}

\* C16: at most one session records at a time, and no session records
\* while another one is still in Processing: the earlier session is back
\* in Idle before the next one reaches Recording.
C16_OneActiveSession ==
    /\ Cardinality(RecordingNow) <= 1
    /\ RecordingNow # {} => ProcessingNow \subseteq RecordingNow

\* Auto-stop timer t runs its callback in this step (a timer that is
\* cleared goes away in a step that ends a stopListening instead).
Fired(t) ==
    /\ t \in timers
    /\ t.kind = "autoStop"
    /\ t \notin timers'
    /\ pending \subseteq pending'

\* The session timer t was armed for is recording and nothing else is
\* going on in the form.
RecordingUntouched(t) ==
    /\ voiceState.isListening
    /\ currentField # "none"
    /\ pending = {}
    /\ isRecording
    /\ mediaRecorder = startCalls[t.id].stream
    /\ streams[mediaRecorder].recorder = "recording"

\* C17: when the 30 s timer of a session that is still recording fires, the
\* recorder is stopped and the session goes to Processing; and a timer
\* never stops the recorder of another session than the one it was armed
\* for.
C17_AutoStopStops ==
    [][\A t \in timers :
          /\ Fired(t) /\ RecordingUntouched(t)
                => /\ streams'[mediaRecorder].recorder # "recording"
                   /\ voiceState'.error = ProcessingMessage
          /\ Fired(t) /\ mediaRecorder # startCalls[t.id].stream
                => streams' = streams]_vars

\* C18: a component calls transcribe only with the blob its stopRecording
\* call resolved with, so never for a stopRecording that rejected; a
\* transcription is handled only once it has resolved; and a stopListening
\* awaiting its transcription goes on (writes the field, sets the message,
\* clears currentField) only in a step in which that call has resolved.
TranscribeAfterStop ==
    \A t \in 1..Len(transcriptions) :
        /\ stopCalls[transcriptions[t].stopCall].status = "resolved"
        /\ transcriptions[t].blob # NoResult
        /\ transcriptions[t].blob = stopCalls[transcriptions[t].stopCall].blob
        /\ transcriptions[t].status # "pending" => transcriptions[t].result # NoResult

C18_StopThenTranscribe ==
    /\ []TranscribeAfterStop
    /\ [][\A h \in pending :
             h.pc = "transcribe" /\ h \notin pending'
                => /\ transcriptions[h.call].status = "resolved"
                   /\ transcriptions'[h.call].status = "handled"]_vars
    /\ [][\A t \in 1..Len(transcriptions) :
             transcriptions'[t].status = "handled" /\ transcriptions[t].status # "handled"
                => transcriptions[t].status = "resolved"]_vars

\* One stopRecording resolved, was transcribed and handled; another one
\* rejected, its stopListening is over and no transcription was made for it.
C18_Witness ==
    /\ \E t \in 1..Len(transcriptions) : transcriptions[t].status = "handled"
    /\ \E c \in 1..Len(stopCalls) :
          /\ stopCalls[c].status = "rejected"
          /\ stopCalls[c].pastGuard
          /\ \A h \in pending : ~(h.pc = "stopRecording" /\ h.call = c)
          /\ \A t \in 1..Len(transcriptions) : transcriptions[t].stopCall # c

\* The stopListening runs in flight for the session of recorder r: awaiting
\* their stopRecording call on r, or the transcription of its audio.
StopsInFlight(r) ==
    {h \in pending :
        \/ h.pc = "stopRecording" /\ stopCalls[h.call].recorder = r
        \/ h.pc = "transcribe"
             /\ stopCalls[transcriptions[h.call].stopCall].recorder = r}

\* C19: whatever the stop triggers do, a session has at most one stop in
\* flight: while its stopRecording or its transcription is pending, no
\* second stopRecording is started for it, and so never a second
\* transcription.
C19_SingleStopInFlight ==
    \A r \in 1..Len(streams) :
        /\ Cardinality(StopsInFlight(r)) <= 1
        /\ Cardinality({t \in 1..Len(transcriptions) :
                          /\ transcriptions[t].status = "pending"
                          /\ stopCalls[transcriptions[t].stopCall].recorder = r}) <= 1

\* An invocation whose stop cancels the session instead of completing it:
\* startListening for another field than the one listening (VoiceIntakeForm),
\* or the stopListening() that MiniTriageChat's handleSendMessage starts.
Cancelling(h) ==
    \/ /\ h.owner = "form"
       /\ h.handler = "startListening"
       /\ h.snap.isListening
       /\ h.snap.currentField # h.field
    \/ /\ h.owner = "chat"
       /\ h.handler = "stopListening"

\* C20: when the transcription of a cancelled session (field switched, chat
\* message sent) resolves and its handler resumes, the result is discarded:
\* no form field and no chat input changes.
C20_CancelledDiscarded ==
    [][\A h \in pending :
          (Cancelling(h) /\ h.pc = "transcribe" /\ h \notin pending')
             => /\ formData' = formData
                /\ chat'.inputText = chat.inputText]_vars

-----------------------------------------------------------------------------
\* Properties of the relay

\* The body carries a non-empty value for the field.
Usable(body, field) == field \in DOMAIN body /\ body[field] # ""

\* C22: a POST /chat with neither a usable message nor a usable audioBase64
\* is answered 400 {"response":"No message or audioBase64 provided."} with
\* no call of the model endpoint, and no request is answered twice: a
\* request whose handler has finished has exactly one answer.
C22_NoInputIs400 ==
    \A q \in 1..Len(relayRequests) :
        LET r == relayRequests[q]
        IN  /\ (~Usable(r.body, "message") /\ ~Usable(r.body, "audioBase64"))
                  => /\ r.answers = <<[status |-> 400,
                                       body |-> [response |->
                                                   "No message or audioBase64 provided."]]>>
                     /\ r.forwarded = <<>>
            /\ Len(r.answers) <= 1
            /\ r.pc = "done" => Len(r.answers) = 1

C22_Witness ==
    \E q \in 1..Len(relayRequests) :
        /\ relayRequests[q].body = [message |-> "", audioBase64 |-> ""]
        /\ relayRequests[q].pc = "done"

\* C23: a message without audioBase64 is forwarded verbatim as the prompt,
\* and a forwarded prompt has the audio-transcription phrasing only when
\* the request carried an audioBase64.
C23_MessageVerbatim ==
    \A q \in 1..Len(relayRequests) :
        LET r == relayRequests[q]
        IN  /\ (Usable(r.body, "message") /\ ~Usable(r.body, "audioBase64"))
                  => /\ Len(r.forwarded) = 1
                     /\ r.forwarded[1].prompt = r.body.message
            /\ \A i \in 1..Len(r.forwarded) :
                  r.forwarded[i].prompt \in {AudioPrompt(a) : a \in {"", AudioBase64}}
                     => Usable(r.body, "audioBase64")

C23_Witness ==
    \E q \in 1..Len(relayRequests) :
        /\ relayRequests[q].body = [message |-> "hello"]
        /\ Len(relayRequests[q].forwarded) = 1

\* The call of the model endpoint failed: no answer came, it was no JSON,
\* or the model server answered with an error status.
ModelCallFailed(outcome) ==
    \/ outcome.kind \in {"networkError", "badJson"}
    \/ outcome.kind = "json" /\ outcome.status \notin 200..299

\* C24: a failed call of the model is answered 500
\* {response: "Error: Unable to reach AI model."}; a 200 answer is given
\* only after a successful model call and carries the trimmed model text.
C24_ModelFailureIs500 ==
    \A q \in 1..Len(relayRequests) :
        LET r == relayRequests[q]
        IN  (r.pc = "done" /\ r.forwarded # <<>>)
               => /\ ModelCallFailed(r.outcome)
                     => r.answers = <<[status |-> 500,
                                       body |-> [response |->
                                                   "Error: Unable to reach AI model."]]>>
                  /\ r.answers[1].status = 200
                     => /\ ~ModelCallFailed(r.outcome)
                        /\ r.answers[1].body
                             = [response |-> Trim(FieldOr(r.outcome.body, "response", ""))]

-----------------------------------------------------------------------------
\* Properties of the minimal VoiceIntakeForm and of the relay adapter

\* Invocation h of the minimal form resumes in this step from a call that
\* failed: permission refused, startRecording or stopRecording rejected, or
\* transcribe returned an error.
MinimalFailure(h) ==
    /\ h.owner = "minimal"
    /\ h \notin pending'
    /\ \/ h.pc = "permission" /\ permCalls[h.call].status = "returned"
                              /\ ~permCalls[h.call].result
       \/ h.pc = "startRecording" /\ startCalls[h.call].status = "rejected"
       \/ h.pc = "stopRecording" /\ stopCalls[h.call].status = "rejected"
       \/ h.pc = "transcribe" /\ transcriptions[h.call].status = "resolved"
                              /\ HasError(transcriptions[h.call].result)

\* C26: no failure of the voice calls is fatal: no handler leaves a promise
\* rejection uncaught, and the step in which a handler meets a failure
\* leaves the controller not recording, with an error message set.
C26_NoFailureFatal ==
    /\ [](unhandled = {})
    /\ [][\A h \in pending :
             MinimalFailure(h) => ~minimal'.isRecording /\ minimal'.error # ""]_vars

\* Transcribe calls of the relay variant that have returned.
RelayReturned ==
    {t \in 1..Len(transcriptions) :
        variant = "relay" /\ transcriptions[t].status \in {"resolved", "handled"}}

\* The relay did not answer call t with a 2xx status: it was not reached,
\* or it answered 400 or 500.
RelayFailed(t) ==
    \A q \in RelayRequestOf(t) : relayRequests[q].answers[1].status \notin 200..299

\* C30: when the relay cannot be reached or answers with a non-2xx status,
\* the relay variant of transcribe returns a failure (error set, no text),
\* and no error string of the relay becomes the transcript of the form.
C30_RelayFailureClassified ==
    /\ \A t \in RelayReturned :
          RelayFailed(t) => /\ HasError(transcriptions[t].result)
                            /\ transcriptions[t].result.text = ""
    /\ minimal.transcript \notin {"Error: Unable to reach AI model.",
                                  "No message or audioBase64 provided."}

-----------------------------------------------------------------------------
\* Properties of closing the hosting UI

\* This step closes the surface that is recording.
ClosesWhileRecording ==
    /\ mounted # {}
    /\ mounted' = {}
    /\ isRecording
    /\ voiceState.isListening \/ chat.isListening

\* C21: closing the hosting UI while its session is Recording releases the
\* hardware at once: after the step no capture stream is live and the
\* recorder does not report recording.
C21_CloseReleasesStream ==
    [][ClosesWhileRecording => ~isRecording' /\ LiveCaptureStreams' = {}]_vars

-----------------------------------------------------------------------------
\* Properties of permission denial, stop control, submit and timers

\* The message a component shows, and its listening flag.
Shown == <<voiceState.error, chat.speechError>>

\* Invocation h of startListening resumes in this step from a permission
\* request that was refused / that was granted.
StartDenied(h) ==
    /\ h.pc = "permission"
    /\ h.handler = "startListening"
    /\ permCalls[h.call].status = "returned"
    /\ ~permCalls[h.call].result
    /\ h \notin pending'

PermissionGranted(h) ==
    /\ h.pc = "permission"
    /\ permCalls[h.call].status = "returned"
    /\ permCalls[h.call].result
    /\ h \notin pending'

DenialShown ==
    \/ voiceState.error = StartDeniedMessage
    \/ chat.speechError = StartDeniedMessage

\* C25: a start whose permission request is refused shows the remediation
\* message, starts no recording and changes no field and no listening flag;
\* and the message stays, whatever timer runs, until a permission request
\* succeeds.
C25_DenialPersistent ==
    /\ [][\A h \in pending :
             StartDenied(h)
                => /\ IF h.owner = "form"
                      THEN voiceState'.error = StartDeniedMessage
                      ELSE chat'.speechError = StartDeniedMessage
                   /\ UNCHANGED <<startCalls, isRecording, streams, formData, currentField>>
                   /\ voiceState'.isListening = voiceState.isListening
                   /\ chat'.isListening = chat.isListening
                   /\ chat'.inputText = chat.inputText]_vars
    /\ [][(DenialShown /\ Shown' # Shown)
             => \E h \in pending : PermissionGranted(h)]_vars

\* A startRecording or stopRecording call has not settled, or a handler
\* that awaited one has not resumed yet.
CallInFlight ==
    \/ \E c \in 1..Len(startCalls) : startCalls[c].status = "awaitingMedia"
    \/ \E c \in 1..Len(stopCalls) : stopCalls[c].status = "pending"
    \/ \E h \in pending : h.pc \in {"startRecording", "stopRecording"}

\* A mounted controller shows its stop control.
StopEnabled ==
    \/ "form" \in mounted /\ voiceState.isListening /\ currentField # "none"
    \/ "chat" \in mounted /\ chat.isListening

\* C27: whenever the recorder reports recording and no start or stop is in
\* flight, a mounted controller is listening with its stop enabled.
C27_RecordingCanBeStopped ==
    (isRecording /\ ~CallInFlight) => StopEnabled

\* Invocation h of handleSubmit builds its intake row and issues the
\* insert in this step.
Inserts(h) ==
    /\ h.owner = "form"
    /\ h.handler = "handleSubmit"
    /\ h.pc = "update"
    /\ Suspend(h, "insert", 0) \in pending'

\* C28: the intake row that handleSubmit inserts after the stop it awaited
\* holds the fields as they are then, the transcript merged by that stop
\* included.
C28_SubmitKeepsDictation ==
    [][\A h \in pending :
          Inserts(h) => IntakeData(h) = formData]_vars

\* The message that the session of timer t had set when it armed t.
OwnMessage(t) ==
    CASE t.kind = "clearTest" -> TestPassedMessage
      [] t.kind = "clearError" -> TranscribedMessage(transcriptions[t.id].result)
      [] t.kind = "clearSpeechError" /\ t.id < 0 -> ChatStopFailedMessage
      [] t.kind = "clearSpeechError" /\ t.id > 0 ->
            IF HasError(transcriptions[t.id].result)
            THEN transcriptions[t.id].result.error
            ELSE NoSpeechMessage("chat")

\* Timer t, which clears a message, runs in this step.
Clears(t) ==
    /\ t.kind \in {"clearTest", "clearError", "clearSpeechError"}
    /\ t \notin timers'

\* C29: a message-clearing timer erases nothing but the message of the
\* session that armed it: when it runs, the message shown is that message
\* (or none), never one that a later start, stop or failure has set.
C29_TimerClearsOwnMessage ==
    [][\A t \in timers :
          Clears(t)
             => (IF t.kind = "clearSpeechError" THEN chat.speechError ELSE voiceState.error)
                   \in {OwnMessage(t), ""}]_vars

-----------------------------------------------------------------------------
\* useAuth (src/hooks/useAuth.ts): initializeAuth, the auth-state-change
\* handler, fetchProfile and createBasicProfile, against the session store
\* and the profiles table.

Users == {"u1", "u2"}

\* Auth-state-change notifications Supabase sends while the hook is mounted.
MaxAuthEvents == 1

\* for (let attempt = 1; attempt <= 3; attempt++)
MaxAttempts == 3

\* setTimeout(resolve, 1000 * attempt)
RetryDelay(attempt) == 1000 * attempt

\* An error value: its code, its message, and whether it is an instance of
\* Error (what a rejected promise or a timeout carries always is).
Err(code, message, isError) ==
    [code |-> code, message |-> message, isError |-> isError]

\* null
NoError == Err("", "", FALSE)

SessionThrown == {Err("", "Session timeout", TRUE)}

SessionResultErrors == {Err("", "Invalid Refresh Token", TRUE)}

ProfileThrown ==
    {Err("", "Profile fetch timeout", TRUE), Err("", "Failed to fetch", TRUE)}

\* The error object of a PostgREST answer; whether it is an Error depends on
\* the bundled client library.
ProfileResultErrors ==
    {Err("42501", "permission denied for table profiles",
         backend.errorsAreErrors)}

DuplicateKey ==
    Err("23505", "duplicate key value violates unique constraint",
        backend.errorsAreErrors)

NoAuthenticatedUser == Err("", "No authenticated user found", TRUE)

\* error.message.includes('timeout')
IsTimeout(e) == e.message \in {"Session timeout", "Profile fetch timeout"}

ConnectMessage == "Unable to connect to the database."

SessionMessage == "Failed to connect to authentication service."

TimeoutMessage == "Connection timeout"

CreateFailedMessage == "Failed to create user profile"

\* What a call has done so far: every attempt of a retry loop, every wait
\* between attempts, how each loop ended, and every insert.
Event(ev, loop, n, ok) == [ev |-> ev, loop |-> loop, n |-> n, ok |-> ok]

NewCall(id, origin, pc) ==
    [id |-> id, origin |-> origin, pc |-> pc, attempt |-> 0,
     userId |-> "none", session |-> "none", data |-> "none",
     error |-> NoError, log |-> <<>>]

AuthUpdate(c, d) == authCalls' = (authCalls \ {c}) \cup {d}

Done(d) == [d EXCEPT !.pc = "done"]

nonAuth == <<tvars, rvars, cvars, mvars, svars, dashboard>>

\* fetchProfile(userId) up to its first await: attempt 1 of the query.
StartFetch(d, userId) ==
    [d EXCEPT !.pc = "profile", !.attempt = 1, !.userId = userId,
              !.data = "none", !.error = NoError]

\* The log of the loop the call is in: a first attempt starts a new one.
LoopLog(c) == IF c.attempt = 1 THEN <<>> ELSE c.log

\* One attempt of a retry loop has settled with error e (NoError: it
\* returned without error): the call either waits for the next attempt or
\* has left the loop.
\* The same, were a wait and a further attempt also made after the third.
Retries_AfterLast(c, e) == e # NoError /\ c.attempt <= MaxAttempts

Retries(c, e) == e # NoError /\ c.attempt < MaxAttempts

AfterAttempt(c, loop, e) ==
    LET tried == [c EXCEPT !.error = e,
                      !.log = Append(LoopLog(c), Event("try", loop, c.attempt,
                                                       e = NoError))]
    IN  IF Retries(c, e)
        THEN [tried EXCEPT !.pc = IF loop = "session" THEN "sessionWait"
                                    ELSE "profileWait",
                  !.log = Append(@, Event("wait", loop,
                                          RetryDelay(c.attempt), FALSE))]
        ELSE [tried EXCEPT !.pc = "after"]

\* if (sessionError) / if (profileError) after the loop: the call goes on,
\* or reports the failure.
Report(d, loop) ==
    [d EXCEPT !.log = Append(@, Event("end", loop, d.attempt,
                                      d.error = NoError))]

\* useEffect: mounted = true, initializeAuth() runs to its first await,
\* the auth-state-change handler is subscribed.
AuthMount ==
    /\ auth = InitialAuth
    /\ authCalls = {}
    /\ auth' = [auth EXCEPT !.mounted = TRUE]
    /\ authCalls' = {NewCall(0, "initializeAuth", "testConnection")}
    /\ UNCHANGED <<backend, nonAuth>>

\* The effect's cleanup.
AuthUnmount ==
    /\ auth.mounted
    /\ auth' = [auth EXCEPT !.mounted = FALSE]
    /\ UNCHANGED <<authCalls, backend, nonAuth>>

\* if (mounted) { set... }
\* The same, were the state left alone whether mounted or not.
IfMounted_Never(next) == auth

IfMounted(next) == IF auth.mounted THEN next ELSE auth

\* await testConnection() returns.
TestConnectionSettles(c, isConnected) ==
    /\ c.pc = "testConnection"
    /\ IF isConnected
       THEN /\ AuthUpdate(c, [c EXCEPT !.pc = "getSession", !.attempt = 1])
            /\ UNCHANGED auth
       ELSE /\ auth' = IfMounted([auth EXCEPT !.authError = ConnectMessage,
                                              !.loading = FALSE])
            /\ AuthUpdate(c, Done(c))
    /\ UNCHANGED <<backend, nonAuth>>

\* initializeAuth after its session loop.
AfterSessionLoop(c, d) ==
    IF d.error # NoError
    THEN /\ auth' = IfMounted([auth EXCEPT !.authError = SessionMessage,
                                           !.loading = FALSE])
         /\ AuthUpdate(c, Done(d))
    ELSE IF ~auth.mounted
    THEN /\ UNCHANGED auth
         /\ AuthUpdate(c, Done(d))
    ELSE IF d.session # "none"
    THEN /\ auth' = [auth EXCEPT !.user = d.session, !.authError = ""]
         /\ AuthUpdate(c, StartFetch(d, d.session))
    ELSE /\ auth' = [auth EXCEPT !.user = "none", !.authError = "",
                                 !.loading = FALSE]
         /\ AuthUpdate(c, Done(d))

\* Promise.race([getSession(), timeout]) settles: with a session and no
\* error, with an error in the result, or by rejecting.
GetSessionSettles(c, e, thrown) ==
    /\ c.pc = "getSession"
    /\ LET got == IF thrown THEN c
                  ELSE [c EXCEPT !.session = IF e = NoError
                                             THEN backend.session ELSE "none"]
           d == AfterAttempt(got, "session", e)
       IN  IF d.pc = "after"
           THEN AfterSessionLoop(c, Report(d, "session"))
           ELSE AuthUpdate(c, d) /\ UNCHANGED auth
    /\ UNCHANGED <<backend, nonAuth>>

\* The wait between two attempts is over: the next attempt is issued.
WaitElapses(c) ==
    /\ c.pc \in {"sessionWait", "profileWait"}
    /\ AuthUpdate(c, [c EXCEPT !.pc = IF c.pc = "sessionWait"
                                      THEN "getSession" ELSE "profile",
                               !.attempt = c.attempt + 1])
    /\ UNCHANGED <<auth, backend, nonAuth>>

\* The onAuthStateChange callback, called with the user of the session (or
\* "none"), up to its first await.
AuthStateChange(u) ==
    /\ auth.mounted
    /\ backend.events < MaxAuthEvents
    /\ IF u # "none"
       THEN /\ auth' = [auth EXCEPT !.user = u, !.authError = ""]
            /\ authCalls' = authCalls \cup
                 {StartFetch(NewCall(backend.events + 1, "onAuthStateChange",
                                     "profile"), u)}
       ELSE /\ auth' = [auth EXCEPT !.user = "none", !.authError = "",
                                    !.profile = "none", !.loading = FALSE]
            /\ UNCHANGED authCalls
    /\ UNCHANGED nonAuth

\* signInWithPassword succeeds: SIGNED_IN.
SignedIn(u) ==
    /\ backend.session = "none"
    /\ backend' = [backend EXCEPT !.session = u, !.events = @ + 1]
    /\ AuthStateChange(u)

\* auth.signOut succeeds: SIGNED_OUT.
SignedOut ==
    /\ backend.session # "none"
    /\ backend' = [backend EXCEPT !.session = "none", !.events = @ + 1]
    /\ AuthStateChange("none")

\* INITIAL_SESSION after subscribing, TOKEN_REFRESHED later: the handler is
\* called with the session as it is.
SessionAnnounced ==
    /\ backend' = [backend EXCEPT !.events = @ + 1]
    /\ AuthStateChange(backend.session)

\* createBasicProfile(userId) up to its first await: auth.getUser().
StartCreate(d) == [d EXCEPT !.pc = "getUser"]

\* createBasicProfile's catch and finally blocks.
CreateFailed(e) ==
    [auth EXCEPT !.authError = IF e.isError THEN CreateFailedMessage ELSE @,
                 !.profile = "none", !.loading = FALSE]

\* fetchProfile after its retry loop, with its finally block.
AfterProfileLoop(c, d) ==
    IF d.error # NoError
    THEN IF d.error.code = "PGRST116"
         THEN /\ AuthUpdate(c, StartCreate(d))
              /\ UNCHANGED auth
         ELSE /\ auth' = [auth EXCEPT
                            !.authError = IF IsTimeout(d.error)
                                          THEN TimeoutMessage ELSE @,
                            !.profile = "none", !.loading = FALSE]
              /\ AuthUpdate(c, Done(d))
    ELSE IF d.data = "none"
    THEN /\ AuthUpdate(c, StartCreate(d))
         /\ UNCHANGED auth
    ELSE /\ auth' = [auth EXCEPT !.profile = d.data, !.loading = FALSE]
         /\ AuthUpdate(c, Done(d))

\* The row .eq('id', userId).maybeSingle() finds (profiles are readable by
\* everyone).
ProfileRow(userId) ==
    IF userId \in backend.profiles THEN userId ELSE "none"

\* Promise.race([profile query, timeout]) settles.
ProfileSettles(c, e, thrown) ==
    /\ c.pc = "profile"
    /\ LET got == IF thrown THEN c
                  ELSE [c EXCEPT !.data = IF e = NoError
                                          THEN ProfileRow(c.userId)
                                          ELSE "none"]
           d == AfterAttempt(got, "profile", e)
       IN  IF d.pc = "after"
           THEN AfterProfileLoop(c, Report(d, "profile"))
           ELSE AuthUpdate(c, d) /\ UNCHANGED auth
    /\ UNCHANGED <<backend, nonAuth>>

\* createBasicProfile: auth.getUser() answers; without a user the function
\* throws, with one it issues the insert.
GetUserSettles(c) ==
    /\ c.pc = "getUser"
    /\ IF backend.session = "none"
       THEN /\ auth' = CreateFailed(NoAuthenticatedUser)
            /\ AuthUpdate(c, Done([c EXCEPT !.error = NoAuthenticatedUser]))
       ELSE /\ AuthUpdate(c, [c EXCEPT !.pc = "insert"])
            /\ UNCHANGED auth
    /\ UNCHANGED <<backend, nonAuth>>

\* The profiles table takes a row when its id is new (primary key) and is
\* the caller's own (row-level security: auth.uid() = id).
InsertAccepted(userId) ==
    userId \notin backend.profiles /\ backend.session = userId

\* createBasicProfile: the insert answers, or the request fails.
InsertSettles(c, thrown) ==
    /\ c.pc = "insert"
    /\ IF ~thrown /\ InsertAccepted(c.userId)
       THEN /\ backend' = [backend EXCEPT !.profiles = @ \cup {c.userId}]
            /\ auth' = [auth EXCEPT !.profile = c.userId, !.loading = FALSE]
            /\ AuthUpdate(c, Done([c EXCEPT
                   !.log = Append(@, Event("insert", "create", 0, TRUE))]))
       ELSE LET e == IF thrown THEN Err("", "Failed to fetch", TRUE)
                     ELSE DuplicateKey
            IN  /\ auth' = CreateFailed(e)
                /\ AuthUpdate(c, Done([c EXCEPT !.error = e,
                       !.log = Append(@, Event("insert", "create", 0,
                                               FALSE))]))
                /\ UNCHANGED backend
    /\ UNCHANGED nonAuth

\* The page is opened: with or without a stored session, with or without a
\* profiles row for each user.
AuthInit ==
    /\ auth = InitialAuth
    /\ authCalls = {}
    /\ \E s \in Users \cup {"none"}, rows \in SUBSET Users, b \in BOOLEAN :
          backend = [EmptyBackend EXCEPT !.session = s, !.profiles = rows,
                                         !.errorsAreErrors = b]
    /\ dashboard = InitialDashboard
    /\ submit = InitialSubmit

InitAuth == AuthInit /\ TIdle /\ RIdle /\ CIdle /\ MIdle

AuthProgress ==
    \E c \in authCalls :
        \/ \E isConnected \in BOOLEAN : TestConnectionSettles(c, isConnected)
        \/ GetSessionSettles(c, NoError, FALSE)
        \/ \E e \in SessionResultErrors : GetSessionSettles(c, e, FALSE)
        \/ \E e \in SessionThrown : GetSessionSettles(c, e, TRUE)
        \/ WaitElapses(c)
        \/ ProfileSettles(c, NoError, FALSE)
        \/ \E e \in ProfileResultErrors : ProfileSettles(c, e, FALSE)
        \/ \E e \in ProfileThrown : ProfileSettles(c, e, TRUE)
        \/ GetUserSettles(c)
        \/ \E thrown \in BOOLEAN : InsertSettles(c, thrown)

NextAuth ==
    \/ AuthMount
    \/ AuthUnmount
    \/ \E u \in Users : SignedIn(u)
    \/ SignedOut
    \/ SessionAnnounced
    \/ AuthProgress

SpecAuth == InitAuth /\ [][NextAuth]_vars

\* The effect runs once the hook is rendered, and every remote call and
\* every timer of a call eventually settles.
SpecAuthFair == SpecAuth /\ WF_vars(AuthMount) /\ WF_vars(AuthProgress)

-----------------------------------------------------------------------------
\* Properties of useAuth

Tries(log) == {i \in DOMAIN log : log[i].ev = "try"}

\* The entries of one loop are its attempts 1, 2, ... in order, never more
\* than MaxAttempts of them, and nothing but the end follows an attempt that
\* returned without error.
AttemptsInOrder(log) ==
    /\ Cardinality(Tries(log)) <= MaxAttempts
    /\ \A i \in Tries(log) :
          /\ log[i].n = Cardinality({j \in Tries(log) : j <= i})
          /\ log[i].ok /\ i < Len(log) => log[i + 1].ev = "end"

\* A wait stands only between a failed attempt and the next attempt, lasts
\* 1000 ms times the failed attempt's number, and there is none after the
\* last attempt.
WaitsBetweenAttempts(log) ==
    \A i \in DOMAIN log :
        /\ log[i].ev = "wait" =>
              /\ i > 1 /\ log[i - 1].ev = "try" /\ ~log[i - 1].ok
              /\ log[i - 1].n < MaxAttempts
              /\ log[i].n = 1000 * log[i - 1].n
              /\ i < Len(log) =>
                    log[i + 1].ev = "try" /\ log[i + 1].n = log[i - 1].n + 1
        /\ log[i].ev = "try" /\ ~log[i].ok /\ i < Len(log) =>
              IF log[i].n < MaxAttempts THEN log[i + 1].ev = "wait"
              ELSE log[i + 1].ev = "end"

\* The loop reports a failure exactly when the last attempt it made failed.
FailureIsLastAttempts(log) ==
    \A i \in DOMAIN log :
        log[i].ev = "end" =>
            /\ i > 1 /\ log[i - 1].ev = "try"
            /\ log[i].ok = log[i - 1].ok

\* C31: the session lookup of initializeAuth and the profile lookup of
\* fetchProfile each make at most 3 attempts, stop at the first attempt that
\* returns without error, wait 1000 ms times the attempt number only between
\* attempts (never after the third), and report failure only when the last
\* attempt made failed: an earlier error or timeout does not make a later
\* success a failure.
C31_BoundedRetries ==
    \A c \in authCalls :
        /\ AttemptsInOrder(c.log)
        /\ WaitsBetweenAttempts(c.log)
        /\ FailureIsLastAttempts(c.log)
        /\ c.pc \in {"sessionWait", "profileWait"} =>
              Len(c.log) > 0 /\ c.log[Len(c.log)].ev = "wait"

\* A lookup that failed once on a result error, once more, and then
\* succeeded on the third attempt: it went on without reporting a failure.
C31_Witness ==
    \E c \in authCalls :
        /\ Len(c.log) >= 6
        /\ [i \in 1..6 |-> <<c.log[i].ev, c.log[i].n, c.log[i].ok>>]
              = << <<"try", 1, FALSE>>, <<"wait", 1000, FALSE>>,
                   <<"try", 2, FALSE>>, <<"wait", 2000, FALSE>>,
                   <<"try", 3, TRUE>>, <<"end", 3, TRUE>> >>

\* C32: while the hook stays mounted and every remote call eventually
\* resolves, rejects or times out, loading eventually becomes false, on
\* every path of initializeAuth and of the auth-state-change handler (and it
\* never becomes true again).
C32_LoadingEnds ==
    /\ auth.mounted ~> (~auth.loading \/ ~auth.mounted)
    /\ [][~auth.loading => ~auth'.loading]_vars

\* Mounted, nothing in flight any more, and the last thing that happened
\* was a profile creation that failed: loading is false.
C32_Witness ==
    /\ auth.mounted /\ ~auth.loading
    /\ \A c \in authCalls : c.pc = "done"
    /\ \E c \in authCalls :
          c.log # <<>> /\ c.log[Len(c.log)] = Event("insert", "create", 0, FALSE)

\* A fetchProfile or createBasicProfile run that has not returned yet.
ProfileInFlight ==
    \E c \in authCalls : c.pc \in {"profile", "profileWait", "getUser", "insert"}

\* C34: whenever user is null and no profile fetch or creation is in flight,
\* profile is null; a fetchProfile or createBasicProfile run started for a
\* signed-in user that resolves after a sign-out (or a change to another
\* user) never installs the earlier user's profile.
C34_NoStaleProfile ==
    auth.mounted /\ ~ProfileInFlight => auth.profile \in {"none", auth.user}

\* The call ran createBasicProfile up to the answer of its insert.
Inserted(c) ==
    c.pc = "done" /\ c.log # <<>> /\ c.log[Len(c.log)].ev = "insert"

Created(c) == Inserted(c) /\ c.log[Len(c.log)].ok

\* Two fetchProfile runs for the same user that both found no row and both
\* went on to insert one, every request of theirs having been answered.
BothCreate(c1, c2) ==
    /\ c1.id # c2.id /\ c1.userId = c2.userId
    /\ Inserted(c1) /\ Inserted(c2)
    /\ {c1.error, c2.error} \subseteq {NoError, DuplicateKey}

-----------------------------------------------------------------------------
\* The doctors table: signUp's createDoctorProfile (useAuth.ts) and
\* DoctorsDashboard's fetchDoctorId / createDoctorRecord (part_004).

\* The signed-in user, whose profile has the role doctor.
Doctor == "u1"

\* Runs of the dashboard's [user, profile] effect.
MaxEffects == 3

nonDoctor == <<tvars, rvars, cvars, mvars, svars, auth, authCalls>>

\* ids of the doctors rows with this user_id (a row's id is its position;
\* the table has no unique constraint on user_id).
DoctorRows(u) == {i \in DOMAIN backend.doctors : backend.doctors[i] = u}

InsertDoctor(u) == [backend EXCEPT !.doctors = Append(@, u)]

RunUpdate(r, s) ==
    dashboard' = [dashboard EXCEPT !.runs = (@ \ {r}) \cup {s}]

\* signUp with role doctor, after the profile upsert:
\* createDoctorProfile issues its insert.
DoctorSignUp ==
    /\ dashboard = InitialDashboard
    /\ backend.doctors = <<>>
    /\ dashboard' = [dashboard EXCEPT !.signUp = "insert"]
    /\ UNCHANGED <<backend, nonDoctor>>

\* createDoctorProfile: the insert answers, or the request fails and
\* signUp throws.
CreateDoctorProfileSettles(ok) ==
    /\ dashboard.signUp = "insert"
    /\ dashboard' = [dashboard EXCEPT !.signUp = "done"]
    /\ backend' = IF ok THEN InsertDoctor(Doctor) ELSE backend
    /\ UNCHANGED nonDoctor

\* The dashboard is rendered.
DashboardMount ==
    /\ ~dashboard.mounted
    /\ dashboard' = [dashboard EXCEPT !.mounted = TRUE]
    /\ UNCHANGED <<backend, nonDoctor>>

\* useEffect(..., [user, profile]) runs with a user and a doctor profile:
\* fetchDoctorId() up to its await.
DashboardEffect ==
    /\ dashboard.mounted
    /\ dashboard.effects < MaxEffects
    /\ dashboard' = [dashboard EXCEPT
                        !.effects = @ + 1,
                        !.runs = @ \cup {[id |-> dashboard.effects + 1,
                                          pc |-> "select"]}]
    /\ UNCHANGED <<backend, nonDoctor>>

\* fetchDoctorId: .eq('user_id', user.id).maybeSingle() answers. One row
\* is the doctor's id, no row leads to createDoctorRecord, several rows
\* (or a failed request) are an error, after which the function returns.
SelectDoctorSettles(r, ok) ==
    /\ r.pc = "select"
    /\ LET rows == DoctorRows(Doctor)
       IN  IF ok /\ rows = {}
           THEN RunUpdate(r, [r EXCEPT !.pc = "insert"])
           ELSE IF ok /\ Cardinality(rows) = 1
           THEN dashboard' = [dashboard EXCEPT
                                 !.doctorId = CHOOSE i \in rows : TRUE,
                                 !.runs = (@ \ {r}) \cup
                                          {[r EXCEPT !.pc = "done"]}]
           ELSE RunUpdate(r, [r EXCEPT !.pc = "done"])
    /\ UNCHANGED <<backend, nonDoctor>>

\* createDoctorRecord: the insert answers with the new row's id, or fails.
CreateDoctorRecordSettles(r, ok) ==
    /\ r.pc = "insert"
    /\ IF ok
       THEN /\ backend' = InsertDoctor(Doctor)
            /\ dashboard' = [dashboard EXCEPT
                                !.doctorId = Len(backend.doctors) + 1,
                                !.runs = (@ \ {r}) \cup
                                         {[r EXCEPT !.pc = "done"]}]
       ELSE /\ RunUpdate(r, [r EXCEPT !.pc = "done"])
            /\ UNCHANGED backend
    /\ UNCHANGED nonDoctor

\* The doctor is signed in and has a profile; a doctors row may exist from
\* an earlier visit.
DoctorInit ==
    /\ auth = InitialAuth
    /\ authCalls = {}
    /\ \E rows \in {<<>>, <<Doctor>>} :
          backend = [EmptyBackend EXCEPT !.session = Doctor,
                                         !.profiles = {Doctor},
                                         !.doctors = rows]
    /\ dashboard = InitialDashboard
    /\ submit = InitialSubmit

InitDoctor == DoctorInit /\ TIdle /\ RIdle /\ CIdle /\ MIdle

NextDoctor ==
    \/ DoctorSignUp
    \/ \E ok \in BOOLEAN : CreateDoctorProfileSettles(ok)
    \/ DashboardMount
    \/ DashboardEffect
    \/ \E r \in dashboard.runs, ok \in BOOLEAN : SelectDoctorSettles(r, ok)
    \/ \E r \in dashboard.runs, ok \in BOOLEAN :
          CreateDoctorRecordSettles(r, ok)

SpecDoctor == InitDoctor /\ [][NextDoctor]_vars

\* C35: at most one doctors record exists per doctor user: over any
\* interleaving of signUp's createDoctorProfile and the dashboard's
\* fetchDoctorId / createDoctorRecord, a second doctors row for the same
\* user_id is never inserted.
C35_OneDoctorRecord ==
    \A u \in Users : Cardinality(DoctorRows(u)) <= 1

-----------------------------------------------------------------------------
\* VoiceIntakeForm.handleSubmit with every outcome of its two writes: the
\* intake page alone, with or without a signed-in user.

InitSubmit ==
    /\ VoiceInit /\ chatKind = "mini"
    /\ TIdle /\ MIdle
    /\ \E u \in {"none", "u1"} : AuthReady(u)

NextSubmit ==
    \/ FormMount
    \/ \E h \in pending : FormPermissionSettled(h)
    \/ \E field \in Fields : FormStartListening(field)
    \/ FormSubmit
    \/ FormSubmitIdle
    \/ \E h \in pending : FormSubmitResumes(h)
    \/ \E h \in pending, ok \in BOOLEAN : FormUpdateSettles(h, ok)
    \/ \E h \in pending, ok \in BOOLEAN : FormSubmitDone(h, ok)
    \/ \E h \in pending : FormStopRecordingSettled(h)
    \/ \E h \in pending : FormTranscribeSettled(h)
    \/ \E h \in pending : FormStartRecordingSettled(h)
    \/ \E c \in 1..MaxPermissionCalls, granted \in BOOLEAN : PermissionAnswered(c, granted)
    \/ \E c \in 1..MaxStarts : MediaGranted(c)
    \/ \E r \in 1..MaxStarts : StopEvent(r)
    \/ \E t \in 1..MaxStops, result \in TranscribeReturns : TranscribeSettles(t, result)

SpecSubmit == InitSubmit /\ [][NextSubmit]_vars

\* A handleSubmit invocation that has not returned yet.
Submitting == {h \in pending : h.handler = "handleSubmit"}

\* The insert is issued right after the profile update was answered without
\* error, and a failed update is followed by no insert.
UpdateBeforeInsert ==
    \A i \in DOMAIN submit.writes :
        /\ submit.writes[i] = Write("insert", "issued") =>
              i > 1 /\ submit.writes[i - 1] = Write("update", "ok")
        /\ submit.writes[i] = Write("update", "failed") /\ i < Len(submit.writes)
              => submit.writes[i + 1] = Write("update", "issued")

\* The step in which a handleSubmit invocation returns.
SubmitReturns == Submitting # {} /\ Submitting' = {}

\* C33: in handleSubmit the profile update completes before the intake
\* insert is issued; without a signed-in user nothing is written; after a
\* failed profile update no insert is made; the medical fields are reset
\* only after both writes succeeded and kept on any failure; and
\* isSubmitting is false again when the handler has finished, on every
\* path.
C33_SubmitOrder ==
    /\ [](UpdateBeforeInsert
          /\ (auth.user = "none" => submit.writes = <<>> /\ intakeRows = <<>>)
          /\ (Submitting = {} => ~submit.isSubmitting))
    /\ [][SubmitReturns =>
            IF submit'.writes[Len(submit'.writes)] = Write("insert", "ok")
            THEN formData' = [f \in Fields |-> ""]
            ELSE formData' = formData]_vars

\* The update went through and the insert failed: the handler has
\* returned, the dictated complaint is still in the form, no row is stored and
\* isSubmitting is false.
C33_Witness ==
    /\ submit.writes = <<Write("update", "issued"), Write("update", "ok"),
                         Write("insert", "issued"), Write("insert", "failed")>>
    /\ Submitting = {}
    /\ formData["chiefComplaint"] # ""
    /\ intakeRows = <<>>
    /\ ~submit.isSubmitting

====
